---- MODULE Spec2Model ----
(***************************************************************************)
(* FELsim: beamUtility.py (PhysicsEqCst, BeamPower, BeamRadiation,         *)
(* AlphaMagnet) and backend/physicalConstants.py (PhysicalConstants).      *)
(*                                                                         *)
(* Numbers.  Two number systems are used.                                  *)
(*  - Q-values (exact): the products and quotients of BeamPower are        *)
(*    carried exactly as (n/d) * 2^p2 * 5^p5 * qe^pe * pi^ppi, where qe is *)
(*    the odd part 801088317 of the decimal mantissa of the elementary     *)
(*    charge 1.602176634e-19 = 2*qe*10^-28 and pi is numpy's pi.  Both are *)
(*    atoms: nothing but their powers is ever needed.                      *)
(*  - F-values (rounded): the kinematics functions are carried in a binary *)
(*    floating-point format with MantBits significand bits, round to       *)
(*    nearest even, NaN and signed infinities, as IEEE-754 binary64 has    *)
(*    with 53 bits.  The exponent is not bounded.                          *)
(***************************************************************************)
EXTENDS Integers, Sequences, FiniteSets, TLC

(***************************************************************************)
(* Bounds of the model                                                     *)
(***************************************************************************)
MaxConstructions == 2
MaxBodyRuns == 4
NThreads == 2
MaxSweepLen == 2

\* the largest number of rows a modelled sweep produces
MaxRows == 8
MantBits == 6

\* the longest particle specification enumerated character by character
MaxSpecLen == 4

\* the most particle records callers keep hold of
MaxHeld == 2

\* the most rows of a lattice table
MaxTableRows == 2

\* clicks of the Run button in one window
MaxRuns == 2
MaxExp == 4

(***************************************************************************)
(* Exact arithmetic (Q-values)                                             *)
(***************************************************************************)
Abs(x) == IF x < 0 THEN -x ELSE x

Sign(x) == IF x < 0 THEN -1 ELSE IF x = 0 THEN 0 ELSE 1

RECURSIVE GCD(_, _)
GCD(a, b) == IF b = 0 THEN a ELSE GCD(b, a % b)

RECURSIVE Pow(_, _)
Pow(b, k) == IF k = 0 THEN 1 ELSE b * Pow(b, k - 1)

\* the exponent of the prime p in n (n > 0)
RECURSIVE Val(_, _)
Val(n, p) == IF n % p = 0 THEN 1 + Val(n \div p, p) ELSE 0

QZero == [n |-> 0, d |-> 1, p2 |-> 0, p5 |-> 0, pe |-> 0, ppi |-> 0]

\* the canonical form of (n/d) * 2^p2 * 5^p5 * qe^pe * pi^ppi, d > 0
QNorm(n, d, p2, p5, pe, ppi) ==
    IF n = 0 THEN QZero
    ELSE LET g  == GCD(Abs(n), d)
             n1 == Abs(n) \div g
             d1 == d \div g
             a2 == Val(n1, 2)
             b2 == Val(d1, 2)
             n2 == n1 \div Pow(2, a2)
             d2 == d1 \div Pow(2, b2)
             a5 == Val(n2, 5)
             b5 == Val(d2, 5)
         IN [n   |-> Sign(n) * (n2 \div Pow(5, a5)),
             d   |-> d2 \div Pow(5, b5),
             p2  |-> p2 + a2 - b2,
             p5  |-> p5 + a5 - b5,
             pe  |-> pe,
             ppi |-> ppi]

\* the decimal literal m * 10^x
QDec(m, x) == QNorm(m, 1, x, x, 0, 0)

QInt(m) == QDec(m, 0)

QMul(a, b) ==
    IF a.n = 0 \/ b.n = 0 THEN QZero
    ELSE LET g1 == GCD(Abs(a.n), b.d)
             g2 == GCD(Abs(b.n), a.d)
         IN [n   |-> (a.n \div g1) * (b.n \div g2),
             d   |-> (a.d \div g2) * (b.d \div g1),
             p2  |-> a.p2 + b.p2,
             p5  |-> a.p5 + b.p5,
             pe  |-> a.pe + b.pe,
             ppi |-> a.ppi + b.ppi]

\* 1/a, a /= 0
QInv(a) == [n   |-> Sign(a.n) * a.d,
            d   |-> Abs(a.n),
            p2  |-> -a.p2,
            p5  |-> -a.p5,
            pe  |-> -a.pe,
            ppi |-> -a.ppi]

QDiv(a, b) == QMul(a, QInv(b))

QNonNeg(a) == a.n >= 0

\* numpy's pi
QPi == [n |-> 1, d |-> 1, p2 |-> 0, p5 |-> 0, pe |-> 0, ppi |-> 1]

(***************************************************************************)
(* PhysicsEqCst: the constants objects a caller may pass as K              *)
(***************************************************************************)
\* PhysicsEqCst.e = 1.602176634e-19 = 2 * qe * 10^-28
ElementaryCharge == [n |-> 1, d |-> 1, p2 |-> -27, p5 |-> -28, pe |-> 1, ppi |-> 0]

PhysicsEqCst == [e |-> ElementaryCharge]

\* the default object and two objects built with another value of e
Ks == {PhysicsEqCst, [e |-> QDec(16, -20)], [e |-> QDec(2, -19)]}

MeV_to_J(K) == QMul(K.e, QDec(1, 6))

(***************************************************************************)
(* BeamPower: the class-level table and the conversion flag                *)
(***************************************************************************)
\* the keys of BeamPower.materials in the order the dict holds them
MaterialOrder == <<"Aluminum", "Copper", "Stainless Steel">>

MaterialNames == {MaterialOrder[i] : i \in 1..Len(MaterialOrder)}

\* BeamPower.materials as the class body defines it
ClassMaterials ==
    [m \in MaterialNames |->
       CASE m = "Aluminum" ->
              [density |-> QDec(2700, 0), specific_heat |-> QDec(900, 0),
               stopping_power |-> QDec(27, -1), heat_capacity |-> QDec(897, -3),
               atomic_number |-> QInt(13), ionization_potential |-> QInt(166),
               atomic_mass |-> QDec(2698, -2)]
         [] m = "Copper" ->
              [density |-> QDec(8960, 0), specific_heat |-> QDec(385, 0),
               stopping_power |-> QDec(50, -1), heat_capacity |-> QDec(385, -3),
               atomic_number |-> QInt(29), ionization_potential |-> QInt(322),
               atomic_mass |-> QDec(6355, -2)]
         [] m = "Stainless Steel" ->
              [density |-> QDec(7850, 0), specific_heat |-> QDec(500, 0),
               stopping_power |-> QDec(35, -1), heat_capacity |-> QDec(500, -3),
               atomic_number |-> QInt(26), ionization_potential |-> QInt(233),
               atomic_mass |-> QDec(5585, -2)]]

\* the right-hand side of  props["stopping_power"] *= (K.MeV_to_J * 1e6) / props["density"]
ConvertedCoefficient(sp, props, K) ==
    QMul(sp, QDiv(QMul(MeV_to_J(K), QDec(1, 6)), props.density))

\* the for loop of _ensure_stopping_power_SI over the first k materials
RECURSIVE ConversionLoop(_, _, _)
ConversionLoop(tbl, K, k) ==
    IF k = 0 THEN tbl
    ELSE LET prev == ConversionLoop(tbl, K, k - 1)
             m    == MaterialOrder[k]
         IN [prev EXCEPT ![m].stopping_power =
                 ConvertedCoefficient(prev[m].stopping_power, prev[m], K)]

ConversionBody(tbl, K) == ConversionLoop(tbl, K, Len(MaterialOrder))

\* _ensure_stopping_power_SI without its flag test
ensure_stopping_power_SI_unguarded(tbl, flag, K) ==
    [materials |-> ConversionBody(tbl, K), sp_converted |-> TRUE]

\* BeamPower._ensure_stopping_power_SI run without interruption
ensure_stopping_power_SI(tbl, flag, K) ==
    IF ~flag THEN [materials |-> ConversionBody(tbl, K), sp_converted |-> TRUE]
    ELSE [materials |-> tbl, sp_converted |-> flag]

(***************************************************************************)
(* State                                                                   *)
(***************************************************************************)
VARIABLES
    materials,      \* BeamPower.materials (class attribute)
    sp_converted,   \* BeamPower._sp_converted (class attribute)
    scipy_ok,       \* whether the guarded scipy import bound norm and quad
    constructed,    \* the BeamPower(...) calls made so far, in order
    lastOp,         \* the most recent call and how it ended
    threads,        \* per thread: position inside BeamPower.__init__
    bodyLog,        \* the table after each run of the conversion body
    call,           \* a call of a pure function and what it returned
    held,           \* the particle records callers hold, in order of return
    ui              \* the data fields of the BeamlineSimulatorUI window

vars == <<materials, sp_converted, scipy_ok, constructed, lastOp, threads, bodyLog, call, held, ui>>

NoOp == [op |-> "none", args |-> <<>>, status |-> "none"]

NoCall == [op |-> "none"]

\* BeamlineSimulatorUI.__init__: the data storage of a new window.  Positions
\* and lengths are whole millimetres; twiss is the common length of the
\* aggregated Twiss series; computed_from remembers the segment list that the
\* stored x_axis, plot6dValues and Twiss series were computed from, and runs
\* counts the clicks of the Run button.
UIInit == [x_axis |-> <<>>, twiss |-> 0, plot6dValues |-> {}, beamSegments |-> [none |-> FALSE, list |-> <<>>], computed_from |-> [none |-> FALSE, list |-> <<>>], message |-> "", current_z_index |-> 0, slider_max |-> 0, runs |-> 0]

\* the keys of self.PARTICLES
PARTICLES == {"electron", "proton"}

BeamTypes == PARTICLES \cup {"muon"}

\* (sigma_x, sigma_y): the defaults 1e-3, 10e-3 and a round beam
DefaultSigma == <<QDec(1, -3), QDec(10, -3)>>

SigmaPairs == {DefaultSigma, <<QDec(2, -3), QDec(2, -3)>>}

MaterialArgs == MaterialNames \cup {"Lead"}

\* the indexes of the BeamPower objects that exist
Instances == {i \in 1..Len(constructed) : constructed[i].status = "ok"}

ClassInit ==
    /\ materials = ClassMaterials
    /\ sp_converted = FALSE
    /\ scipy_ok \in BOOLEAN
    /\ constructed = <<>>
    /\ lastOp = NoOp

IdleThreads == [t \in {} |-> 0]

Init ==
    /\ ClassInit
    /\ threads = IdleThreads
    /\ bodyLog = <<>>
    /\ held = <<>>
    /\ ui = UIInit
    /\ call = NoCall

(***************************************************************************)
(* BeamPower.__init__                                                      *)
(***************************************************************************)
BeamPowerInit(K, beam_type, sigma) ==
    /\ Len(constructed) < MaxConstructions
    /\ LET r  == ensure_stopping_power_SI(materials, sp_converted, K)
           st == IF beam_type \in PARTICLES THEN "ok" ELSE "ValueError"
       IN /\ materials' = r.materials
          /\ sp_converted' = r.sp_converted
          /\ constructed' = Append(constructed,
                 [K |-> K, beam_type |-> beam_type, sigma_x |-> sigma[1],
                  sigma_y |-> sigma[2], status |-> st])
          /\ lastOp' = [op |-> "BeamPower", args |-> <<beam_type>>, status |-> st]
    /\ UNCHANGED <<scipy_ok, threads, bodyLog, call, held, ui>>

(***************************************************************************)
(* The model operations as steps of a single-threaded caller.  What each   *)
(* returns is defined with the operation's own specification below; here a *)
(* call is recorded with its arguments and the way it ended.               *)
(***************************************************************************)
Frame == UNCHANGED <<materials, sp_converted, scipy_ok, constructed, threads, bodyLog, call, held, ui>>

\* BeamPower.getPowerDF: the membership test on material_for_temp comes first
getPowerDF_call(i, material_for_temp) ==
    /\ i \in Instances
    /\ lastOp' = [op |-> "getPowerDF", args |-> <<i, material_for_temp>>,
                  status |-> IF material_for_temp \in DOMAIN materials
                             THEN "ok" ELSE "ValueError"]
    /\ Frame

\* BeamPower.model_Grunn: self.materials[material] raises KeyError
model_Grunn_call(i, material) ==
    /\ i \in Instances
    /\ lastOp' = [op |-> "model_Grunn", args |-> <<i, material>>,
                  status |-> IF material \in DOMAIN materials THEN "ok" ELSE "KeyError"]
    /\ Frame

\* model_Bethe rescaling the density in place instead of into the local rho
model_Bethe_call_inplace(i, material) ==
    /\ i \in Instances
    /\ lastOp' = [op |-> "model_Bethe", args |-> <<i, material>>,
                  status |-> IF material \in DOMAIN materials THEN "ok" ELSE "KeyError"]
    /\ materials' = IF material \in DOMAIN materials
                    THEN [materials EXCEPT ![material].density = QDiv(@, QInt(1000))]
                    ELSE materials
    /\ UNCHANGED <<sp_converted, scipy_ok, constructed, threads, bodyLog, call, held, ui>>

\* BeamPower.model_Bethe reads five properties of the material
model_Bethe_call(i, material) ==
    /\ i \in Instances
    /\ lastOp' = [op |-> "model_Bethe", args |-> <<i, material>>,
                  status |-> IF material \in DOMAIN materials THEN "ok" ELSE "KeyError"]
    /\ Frame

\* BeamPower.compute_deposition_profile: the norm test, then model_Bethe
compute_deposition_profile_call(i, material) ==
    /\ i \in Instances
    /\ lastOp' = [op |-> "compute_deposition_profile", args |-> <<i, material>>,
                  status |-> IF ~scipy_ok THEN "ImportError"
                             ELSE IF material \in DOMAIN materials THEN "ok"
                             ELSE "KeyError"]
    /\ Frame

\* the methods of BeamRadiation; only fraction_above_threshold tests quad
BeamRadiationOps == {"ics_yield_per_pulse", "fraction_above_threshold", "quick_report_and_plots"}

BeamRadiation_call(K, op) ==
    /\ lastOp' = [op |-> op, args |-> <<K>>,
                  status |-> IF op = "fraction_above_threshold" /\ ~scipy_ok
                             THEN "ImportError" ELSE "ok"]
    /\ Frame

\* the methods of AlphaMagnet
AlphaMagnetOps == {"g_from_current", "s_alpha_from_bg_g", "x_max_from_bg_g",
                   "y_max_est_from_xmax", "dsalpha_dQp0",
                   "plot_s_x_y_vs_energy_with_LAS", "plot_alpha_compression_1343"}

AlphaMagnet_call(K, op) ==
    /\ lastOp' = [op |-> op, args |-> <<K>>, status |-> "ok"]
    /\ Frame

ModelOps == {"getPowerDF", "model_Grunn", "model_Bethe", "compute_deposition_profile"}
               \cup BeamRadiationOps \cup AlphaMagnetOps

Next ==
    \/ \E K \in Ks, b \in BeamTypes : BeamPowerInit(K, b, DefaultSigma)
    \/ \E i \in 1..MaxConstructions, m \in MaterialArgs : getPowerDF_call(i, m)
    \/ \E i \in 1..MaxConstructions, m \in MaterialArgs : model_Grunn_call(i, m)
    \/ \E i \in 1..MaxConstructions, m \in MaterialArgs : model_Bethe_call(i, m)
    \/ \E i \in 1..MaxConstructions, m \in MaterialArgs : compute_deposition_profile_call(i, m)
    \/ \E K \in Ks, op \in BeamRadiationOps : BeamRadiation_call(K, op)
    \/ \E K \in Ks, op \in AlphaMagnetOps : AlphaMagnet_call(K, op)

Spec == Init /\ [][Next]_vars

(***************************************************************************)
(* C1.  In any sequence of BeamPower constructions, whatever constants     *)
(* object each passes, the stopping-power coefficients are converted       *)
(* exactly once, by the first construction: from then on the table is the  *)
(* class table with every coefficient multiplied once by the factor of the *)
(* first call's K, and the flag is set; before it, nothing is converted.   *)
(***************************************************************************)
C1_ConvertedOnceByFirst ==
    IF constructed = <<>>
    THEN materials = ClassMaterials /\ ~sp_converted
    ELSE /\ sp_converted
         /\ \A m \in MaterialNames :
               materials[m] = [ClassMaterials[m] EXCEPT !.stopping_power =
                   QMul(ClassMaterials[m].stopping_power,
                        QDiv(QMul(QMul(constructed[1].K.e, QDec(1, 6)), QDec(1, 6)),
                             ClassMaterials[m].density))]

\* a second construction has been made, with another constants object
C1_Witness ==
    /\ Len(constructed) >= 2
    /\ constructed[1].K # constructed[2].K
    /\ constructed[2].status = "ok"

(***************************************************************************)
(* C4.  No model operation mutates shared state: a step that is a call of  *)
(* getPowerDF, model_Grunn, model_Bethe, compute_deposition_profile, a     *)
(* BeamRadiation method or an AlphaMagnet method leaves every property of  *)
(* every material and the conversion flag as they were.                    *)
(***************************************************************************)
C4_ModelOpsFrame ==
    [][lastOp'.op \in ModelOps => (materials' = materials /\ sp_converted' = sp_converted)]_vars

\* after the first construction, a model operation has been called
C4_Witness ==
    /\ sp_converted
    /\ Instances # {}
    /\ lastOp.op = "model_Bethe"
    /\ lastOp.status = "ok"

(***************************************************************************)
(* Concurrent first use: every thread constructs one BeamPower.  A thread  *)
(* can be preempted between any two bytecodes, so the flag test, the read  *)
(* and the write of  props["stopping_power"] *= ...  for each material,    *)
(* and the flag assignment are separate steps.                             *)
(***************************************************************************)
Threads == 1..NThreads

ThreadStart(K) == [pc |-> "check", K |-> K, idx |-> 0, tmp |-> QZero]

InitThreads ==
    /\ ClassInit
    /\ threads \in [Threads -> {ThreadStart(K) : K \in Ks}]
    /\ bodyLog = <<>>
    /\ held = <<>>
    /\ ui = UIInit
    /\ call = NoCall

ThreadFrame == UNCHANGED <<scipy_ok, lastOp, bodyLog, call, held, ui>>

\* if not cls._sp_converted:
T_ReadFlag(t) ==
    /\ threads[t].pc = "check"
    /\ threads' = [threads EXCEPT ![t].pc = IF sp_converted THEN "rest" ELSE "load",
                                  ![t].idx = 1]
    /\ UNCHANGED <<materials, sp_converted, constructed>>
    /\ ThreadFrame

\* the load of props["stopping_power"] for the material the loop is at
T_Load(t) ==
    /\ threads[t].pc = "load"
    /\ threads' = [threads EXCEPT ![t].pc = "store",
                                  ![t].tmp = materials[MaterialOrder[threads[t].idx]].stopping_power]
    /\ UNCHANGED <<materials, sp_converted, constructed>>
    /\ ThreadFrame

\* the store of the product, and the loop's advance
T_Store(t) ==
    /\ threads[t].pc = "store"
    /\ LET m == MaterialOrder[threads[t].idx]
       IN materials' = [materials EXCEPT ![m].stopping_power =
                           ConvertedCoefficient(threads[t].tmp, materials[m], threads[t].K)]
    /\ threads' = [threads EXCEPT ![t].pc = IF threads[t].idx = Len(MaterialOrder)
                                            THEN "setflag" ELSE "load",
                                  ![t].idx = threads[t].idx + 1]
    /\ UNCHANGED <<sp_converted, constructed>>
    /\ ThreadFrame

\* cls._sp_converted = True
T_SetFlag(t) ==
    /\ threads[t].pc = "setflag"
    /\ sp_converted' = TRUE
    /\ threads' = [threads EXCEPT ![t].pc = "rest"]
    /\ UNCHANGED <<materials, constructed>>
    /\ ThreadFrame

\* the rest of __init__ (beam_type is the default "electron")
T_Rest(t) ==
    /\ threads[t].pc = "rest"
    /\ constructed' = Append(constructed,
           [K |-> threads[t].K, beam_type |-> "electron", sigma_x |-> DefaultSigma[1],
            sigma_y |-> DefaultSigma[2], status |-> "ok"])
    /\ threads' = [threads EXCEPT ![t].pc = "done"]
    /\ UNCHANGED <<materials, sp_converted>>
    /\ ThreadFrame

NextThreads ==
    \/ \E t \in Threads : T_ReadFlag(t)
    \/ \E t \in Threads : T_Load(t)
    \/ \E t \in Threads : T_Store(t)
    \/ \E t \in Threads : T_SetFlag(t)
    \/ \E t \in Threads : T_Rest(t)

SpecThreads == InitThreads /\ [][NextThreads]_vars

AllDone == \A t \in Threads : threads[t].pc = "done"

(***************************************************************************)
(* C2.  When the threads construct their first BeamPower concurrently,     *)
(* then under every interleaving each material's coefficient ends up       *)
(* converted exactly once: when all constructions have returned, each      *)
(* coefficient is its class value times the factor of one thread's K.      *)
(***************************************************************************)
C2_ConvertedOnceConcurrently ==
    AllDone =>
        \A m \in MaterialNames :
            \E t \in Threads :
                materials[m].stopping_power =
                    ConvertedCoefficient(ClassMaterials[m].stopping_power,
                                         ClassMaterials[m], threads[t].K)

(***************************************************************************)
(* The conversion body on its own: the for loop of                         *)
(* _ensure_stopping_power_SI run on the class table with the flag test     *)
(* left out, once per step, each run with a constants object K.            *)
(***************************************************************************)
InitBody ==
    /\ ClassInit
    /\ threads = IdleThreads
    /\ bodyLog = <<>>
    /\ held = <<>>
    /\ ui = UIInit
    /\ call = NoCall

RunConversionBody(K) ==
    /\ Len(bodyLog) < MaxBodyRuns
    /\ materials' = ConversionBody(materials, K)
    /\ bodyLog' = Append(bodyLog, [K |-> K, materials |-> materials'])
    /\ UNCHANGED <<sp_converted, scipy_ok, constructed, lastOp, threads, call, held, ui>>

NextBody == \E K \in Ks : RunConversionBody(K)

SpecBody == InitBody /\ [][NextBody]_vars

(***************************************************************************)
(* C3.  The conversion step is an assignment, not an accumulation: a       *)
(* second run of the conversion body (with the same constants) leaves      *)
(* every coefficient equal to its value after the first run.               *)
(***************************************************************************)
C3_BodyIdempotent ==
    (Len(bodyLog) >= 2 /\ bodyLog[2].K = bodyLog[1].K) =>
        \A m \in MaterialNames :
            bodyLog[2].materials[m].stopping_power = bodyLog[1].materials[m].stopping_power

(***************************************************************************)
(* BeamPower.getPowerDF (plot=False)                                       *)
(***************************************************************************)
\* the beam power with the repetition rate applied twice
P_beam_rate_squared(K, E, r, T_pulse, I_pulse) ==
    LET Q_macropulse == QMul(I_pulse, T_pulse)
        N_electrons  == QDiv(Q_macropulse, K.e)
        E_pulse      == QMul(N_electrons, QMul(E, MeV_to_J(K)))
    IN QMul(QMul(E_pulse, r), r)

\* lines 246-249: the beam power of one (E, r, T_pulse, I_pulse)
P_beam(K, E, r, T_pulse, I_pulse) ==
    LET Q_macropulse == QMul(I_pulse, T_pulse)
        N_electrons  == QDiv(Q_macropulse, K.e)
        E_pulse      == QMul(N_electrons, QMul(E, MeV_to_J(K)))
    IN QMul(E_pulse, r)

\* lines 237-239: the deposit volume in cm^3
beam_volume_cm3(self, penetration_depth) ==
    LET beam_area   == QMul(QMul(QPi, QMul(QInt(6), self.sigma_x)), QMul(QInt(6), self.sigma_y))
        beam_volume == QMul(beam_area, penetration_depth)
    IN QMul(beam_volume, QDec(1, 6))

\* lines 252-253: the temperature rise in one material
temp_rise(P, volume_cm3, props) ==
    LET mass_g == QDiv(QMul(volume_cm3, props.density), QInt(1000))
    IN QDiv(P, QMul(mass_g, props.heat_capacity))

\* line 254: the row appended for one quadruple
PowerRow(self, tbl, penetration_depth, E, r, T_pulse, I_pulse) ==
    LET P == P_beam(self.K, E, r, T_pulse, I_pulse)
        v == beam_volume_cm3(self, penetration_depth)
    IN [Energy |-> E,
        Current |-> QMul(I_pulse, QDec(1, 3)),
        RepRate |-> r,
        PulseDuration |-> QMul(T_pulse, QDec(1, 6)),
        Power |-> P,
        TempRise |-> [m \in DOMAIN tbl |-> temp_rise(P, v, tbl[m])]]

\* the four nested for loops, each over the first k elements of its sequence
\* the innermost loop leaving after its first current
LoopI_break(ctx, E, r, T_pulse, Is, k) ==
    IF k = 0 THEN <<>>
    ELSE <<PowerRow(ctx.self, ctx.tbl, ctx.depth, E, r, T_pulse, Is[1])>>

RECURSIVE LoopI(_, _, _, _, _, _)
LoopI(ctx, E, r, T_pulse, Is, k) ==
    IF k = 0 THEN <<>>
    ELSE Append(LoopI(ctx, E, r, T_pulse, Is, k - 1),
                PowerRow(ctx.self, ctx.tbl, ctx.depth, E, r, T_pulse, Is[k]))

RECURSIVE LoopT(_, _, _, _, _, _)
LoopT(ctx, E, r, Ts, Is, k) ==
    IF k = 0 THEN <<>>
    ELSE LoopT(ctx, E, r, Ts, Is, k - 1) \o LoopI(ctx, E, r, Ts[k], Is, Len(Is))

RECURSIVE LoopR(_, _, _, _, _, _)
LoopR(ctx, E, Rs, Ts, Is, k) ==
    IF k = 0 THEN <<>>
    ELSE LoopR(ctx, E, Rs, Ts, Is, k - 1) \o LoopT(ctx, E, Rs[k], Ts, Is, Len(Ts))

RECURSIVE LoopE(_, _, _, _, _, _)
LoopE(ctx, Es, Rs, Ts, Is, k) ==
    IF k = 0 THEN <<>>
    ELSE LoopE(ctx, Es, Rs, Ts, Is, k - 1) \o LoopR(ctx, Es[k], Rs, Ts, Is, Len(Rs))

\* getPowerDF: the rows of the returned DataFrame, or the ValueError
getPowerDF(self, tbl, I_pulse_range, T_pulse_values, rep_rate_values, E_energy_range, penetration_depth, material_for_temp) ==
    IF material_for_temp \notin DOMAIN tbl
    THEN [status |-> "ValueError", rows |-> <<>>,
          message |-> [fields |-> {"material_for_temp"}, names |-> DOMAIN tbl]]
    ELSE [status |-> "ok",
          rows |-> LoopE([self |-> self, tbl |-> tbl, depth |-> penetration_depth],
                         E_energy_range, rep_rate_values, T_pulse_values, I_pulse_range,
                         Len(E_energy_range))]

\* the sequences over S of length at most MaxSweepLen
Sweeps(S) == UNION {[1..k -> S] : k \in 0..MaxSweepLen}

EnergyVals == {QInt(45), QDec(-12, -1)}      \* MeV

RepRateVals == {QInt(5), QInt(10)}           \* Hz

DurationVals == {QDec(4, -6)}                \* s

CurrentVals == {QDec(1, -1), QDec(2, -1)}    \* A

DepthVals == {QDec(20, -3)}                  \* m, the default

\* the state after one construction BeamPower(K=K, sigma_x=.., sigma_y=..)
InitPower ==
    /\ \E K \in {PhysicsEqCst, [e |-> QDec(2, -19)]}, s \in SigmaPairs :
          /\ materials = ConversionBody(ClassMaterials, K)
          /\ constructed = <<[K |-> K, beam_type |-> "electron", sigma_x |-> s[1],
                               sigma_y |-> s[2], status |-> "ok"]>>
    /\ sp_converted = TRUE
    /\ scipy_ok = TRUE
    /\ lastOp = [op |-> "BeamPower", args |-> <<"electron">>, status |-> "ok"]
    /\ threads = IdleThreads
    /\ bodyLog = <<>>
    /\ held = <<>>
    /\ ui = UIInit
    /\ call = NoCall

Call_getPowerDF(Is, Ts, Rs, Es, depth, material) ==
    /\ call = NoCall
    /\ LET r == getPowerDF(constructed[1], materials, Is, Ts, Rs, Es, depth, material)
       IN call' = [op |-> "getPowerDF", I_pulse_range |-> Is, T_pulse_values |-> Ts,
                   rep_rate_values |-> Rs, E_energy_range |-> Es,
                   penetration_depth |-> depth, material_for_temp |-> material,
                   status |-> r.status, rows |-> r.rows]
    /\ UNCHANGED <<materials, sp_converted, scipy_ok, constructed, lastOp, threads, bodyLog, held, ui>>

NextPower ==
    /\ call = NoCall
    /\ \E Is \in Sweeps(CurrentVals), Ts \in Sweeps(DurationVals), Rs \in Sweeps(RepRateVals),
          Es \in Sweeps(EnergyVals), depth \in DepthVals, material \in {"Copper", "Lead"} :
           /\ Len(Is) * Len(Ts) * Len(Rs) * Len(Es) <= MaxRows
           /\ Call_getPowerDF(Is, Ts, Rs, Es, depth, material)

SpecPower == InitPower /\ [][NextPower]_vars

PowerReturned == call.op = "getPowerDF" /\ call.status = "ok"

(***************************************************************************)
(* C5.  getPowerDF returns exactly one row for every (energy, repRate,     *)
(* pulseDuration, current) quadruple of its inputs: the row count is the   *)
(* product of the four lengths, the rows are ordered with energy outermost *)
(* and current innermost, and each row's power is                          *)
(* (current*duration/e) * energy_in_joules * repRate.                      *)
(***************************************************************************)
C5_OneRowPerQuadruple ==
    PowerReturned =>
        LET Es == call.E_energy_range
            Rs == call.rep_rate_values
            Ts == call.T_pulse_values
            Is == call.I_pulse_range
            e  == constructed[1].K.e
        IN /\ Len(call.rows) = Len(Es) * Len(Rs) * Len(Ts) * Len(Is)
           /\ \A iE \in 1..Len(Es), iR \in 1..Len(Rs), iT \in 1..Len(Ts), iI \in 1..Len(Is) :
                 LET row == call.rows[(((iE - 1) * Len(Rs) + (iR - 1)) * Len(Ts) + (iT - 1))
                                          * Len(Is) + iI]
                 IN /\ row.Energy = Es[iE]
                    /\ row.RepRate = Rs[iR]
                    /\ row.PulseDuration = QMul(Ts[iT], QDec(1, 6))
                    /\ row.Current = QMul(Is[iI], QDec(1, 3))
                    /\ row.Power = QMul(QMul(QDiv(QMul(Is[iI], Ts[iT]), e),
                                              QMul(Es[iE], QMul(e, QDec(1, 6)))),
                                         Rs[iR])

\* a sweep with two values of every parameter but the duration has returned
C5_Witness ==
    /\ PowerReturned
    /\ Len(call.E_energy_range) = 2 /\ call.E_energy_range[1] # call.E_energy_range[2]
    /\ Len(call.rep_rate_values) = 2 /\ call.rep_rate_values[1] # call.rep_rate_values[2]
    /\ Len(call.I_pulse_range) = 2 /\ call.I_pulse_range[1] # call.I_pulse_range[2]
    /\ Len(call.T_pulse_values) = 1
    /\ Len(call.rows) = 8

(***************************************************************************)
(* C6 as claimed.  In every row produced by getPowerDF the power is        *)
(* non-negative, and for fixed energy, pulse duration and current the row  *)
(* at repetition rate 2r has exactly twice the power of the row at r.      *)
(***************************************************************************)
SameButRate(a, b) ==
    /\ a.Energy = b.Energy
    /\ a.PulseDuration = b.PulseDuration
    /\ a.Current = b.Current
    /\ b.RepRate = QMul(QInt(2), a.RepRate)

PowerLinearInRate ==
    \A i, j \in 1..Len(call.rows) :
        SameButRate(call.rows[i], call.rows[j]) =>
            call.rows[j].Power = QMul(QInt(2), call.rows[i].Power)

C7_TempRiseBySpecificHeat ==
    PowerReturned =>
        \A i \in 1..Len(call.rows), m \in MaterialNames :
            LET self      == constructed[1]
                volume_m3 == QMul(QMul(QMul(QPi, QMul(QInt(6), self.sigma_x)),
                                       QMul(QInt(6), self.sigma_y)),
                                  call.penetration_depth)
                mass_kg   == QMul(volume_m3, materials[m].density)
            IN call.rows[i].TempRise[m] =
                   QDiv(call.rows[i].Power, QMul(mass_kg, materials[m].specific_heat))

(***************************************************************************)
(* Rounded arithmetic (F-values): sign s, significand m and exponent e     *)
(* stand for s * m * 2^e with 2^(MantBits-1) <= m < 2^MantBits, or m = 0   *)
(* for zero; k tells a finite value from an infinity and from NaN.         *)
(***************************************************************************)
FZero == [k |-> "fin", s |-> 1, m |-> 0, e |-> 0]

FNaN == [k |-> "nan", s |-> 1, m |-> 0, e |-> 0]

FInf(s) == [k |-> "inf", s |-> s, m |-> 0, e |-> 0]

RECURSIVE BitLen(_)
BitLen(n) == IF n = 0 THEN 0 ELSE 1 + BitLen(n \div 2)

\* s * n * 2^e (and a little more when sticky) rounded to nearest, ties to even
FRound(s, n, e, sticky) ==
    IF n = 0 THEN FZero
    ELSE LET bl == BitLen(n)
         IN IF bl <= MantBits
            THEN [k |-> "fin", s |-> s, m |-> n * Pow(2, MantBits - bl),
                  e |-> e - (MantBits - bl)]
            ELSE LET sh   == bl - MantBits
                     q    == n \div Pow(2, sh)
                     r    == n % Pow(2, sh)
                     half == Pow(2, sh - 1)
                     up   == r > half \/ (r = half /\ (sticky \/ q % 2 = 1))
                     q1   == IF up THEN q + 1 ELSE q
                 IN IF q1 = Pow(2, MantBits)
                    THEN [k |-> "fin", s |-> s, m |-> Pow(2, MantBits - 1), e |-> e + sh + 1]
                    ELSE [k |-> "fin", s |-> s, m |-> q1, e |-> e + sh]

\* the integer n as a float
FInt(n) == FRound(Sign(n), Abs(n), 0, FALSE)

\* floor(a * 2^k / b) and whether the division left a remainder, bit by bit
RECURSIVE LongDiv(_, _, _, _)
LongDiv(q, rem, b, k) ==
    IF k = 0 THEN [q |-> q, sticky |-> rem # 0]
    ELSE IF 2 * rem >= b THEN LongDiv(2 * q + 1, 2 * rem - b, b, k - 1)
         ELSE LongDiv(2 * q, 2 * rem, b, k - 1)

\* s * (a / b) * 2^e for integers a, b > 0, correctly rounded
FRatio(s, a, b, e) ==
    LET k  == IF MantBits + 2 + BitLen(b) - BitLen(a) > 0
              THEN MantBits + 2 + BitLen(b) - BitLen(a) ELSE 0
        qr == LongDiv(a \div b, a % b, b, k)
    IN FRound(s, qr.q, e - k, qr.sticky)

FNeg(a) == IF a.k = "nan" \/ (a.k = "fin" /\ a.m = 0) THEN a ELSE [a EXCEPT !.s = -a.s]

FIsZero(a) == a.k = "fin" /\ a.m = 0

FIsFinite(a) == a.k = "fin"

FMul(a, b) ==
    IF a.k = "nan" \/ b.k = "nan" THEN FNaN
    ELSE IF a.k = "inf" \/ b.k = "inf"
         THEN IF FIsZero(a) \/ FIsZero(b) THEN FNaN ELSE FInf(a.s * b.s)
    ELSE FRound(a.s * b.s, a.m * b.m, a.e + b.e, FALSE)

\* numpy's division: x/0 is an infinity, 0/0 is NaN
FDiv(a, b) ==
    IF a.k = "nan" \/ b.k = "nan" THEN FNaN
    ELSE IF a.k = "inf" THEN (IF b.k = "inf" THEN FNaN ELSE FInf(a.s * b.s))
    ELSE IF b.k = "inf" THEN FZero
    ELSE IF FIsZero(b) THEN (IF FIsZero(a) THEN FNaN ELSE FInf(a.s))
    ELSE IF FIsZero(a) THEN FZero
    ELSE FRatio(a.s * b.s, a.m, b.m, a.e - b.e)

\* the sum of two finite non-zero values, hi having the larger exponent
FAddFinite(hi, lo) ==
    LET d == hi.e - lo.e
    IN IF d > MantBits + 2
       THEN FRound(hi.s, IF hi.s = lo.s THEN 4 * hi.m ELSE 4 * hi.m - 1, hi.e - 2, TRUE)
       ELSE LET total == hi.s * hi.m * Pow(2, d) + lo.s * lo.m
            IN FRound(Sign(total), Abs(total), lo.e, FALSE)

FAdd(a, b) ==
    IF a.k = "nan" \/ b.k = "nan" THEN FNaN
    ELSE IF a.k = "inf" THEN (IF b.k = "inf" /\ b.s # a.s THEN FNaN ELSE a)
    ELSE IF b.k = "inf" THEN b
    ELSE IF FIsZero(a) THEN b
    ELSE IF FIsZero(b) THEN a
    ELSE IF a.e >= b.e THEN FAddFinite(a, b) ELSE FAddFinite(b, a)

FSub(a, b) == FAdd(a, FNeg(b))

RECURSIVE ISqrt(_)
ISqrt(n) ==
    IF n < 2 THEN n
    ELSE LET r == 2 * ISqrt(n \div 4)
         IN IF (r + 1) * (r + 1) <= n THEN r + 1 ELSE r

\* numpy's sqrt: NaN for a negative argument
FSqrt(a) ==
    IF a.k = "nan" THEN FNaN
    ELSE IF FIsZero(a) THEN FZero
    ELSE IF a.s < 0 THEN FNaN
    ELSE IF a.k = "inf" THEN a
    ELSE LET t == IF (a.e - (MantBits + 2)) % 2 = 0 THEN MantBits + 2 ELSE MantBits + 3
             x == a.m * Pow(2, t)
             r == ISqrt(x)
         IN FRound(1, r, (a.e - t) \div 2, r * r # x)

\* n1 * 2^e1 <= n2 * 2^e2 for integers n1, n2 > 0
MagLE(n1, e1, n2, e2) ==
    LET b1 == BitLen(n1) + e1
        b2 == BitLen(n2) + e2
    IN IF b1 < b2 THEN TRUE
       ELSE IF b1 > b2 THEN FALSE
       ELSE IF e1 >= e2 THEN n1 * Pow(2, e1 - e2) <= n2
       ELSE n1 <= n2 * Pow(2, e2 - e1)

\* a <= b for values that are not NaN
FLessEq(a, b) ==
    IF a.k = "inf" THEN a.s < 0 \/ (b.k = "inf" /\ b.s > 0)
    ELSE IF b.k = "inf" THEN b.s > 0
    ELSE IF FIsZero(a) THEN FIsZero(b) \/ b.s > 0
    ELSE IF FIsZero(b) THEN a.s < 0
    ELSE IF a.s # b.s THEN a.s < 0
    ELSE IF a.s > 0 THEN MagLE(a.m, a.e, b.m, b.e)
    ELSE MagLE(b.m, b.e, a.m, a.e)

\* np.maximum: NaN if either argument is NaN
FMaximum(a, b) ==
    IF a.k = "nan" \/ b.k = "nan" THEN FNaN
    ELSE IF FLessEq(a, b) THEN b ELSE a

FOne == FInt(1)

(***************************************************************************)
(* PhysicsEqCst kinematics (numpy arrays, element-wise) and                *)
(* PhysicalConstants.relativistic_parameters (Python floats)               *)
(***************************************************************************)
\* PhysicsEqCst.me_c2_MeV = 0.51099895
me_c2_MeV == FRatio(1, 51099895, 100000000, 0)

\* beta_gamma_from_E_MeV without the np.where(np.isfinite(E), E, 0.0) line
beta_gamma_element_unfiltered(E_MeV) ==
    LET E     == FMaximum(E_MeV, FZero)
        gamma == FAdd(FOne, FDiv(E, me_c2_MeV))
        val   == FSub(FOne, FDiv(FOne, FMul(gamma, gamma)))
        clip  == FMaximum(val, FZero)
        beta  == FSqrt(clip)
    IN FMul(beta, gamma)

\* one element of beta_gamma_from_E_MeV, lines 89-95
beta_gamma_element(E_MeV) ==
    LET E1    == IF FIsFinite(E_MeV) THEN E_MeV ELSE FZero
        E     == FMaximum(E1, FZero)
        gamma == FAdd(FOne, FDiv(E, me_c2_MeV))
        val   == FSub(FOne, FDiv(FOne, FMul(gamma, gamma)))
        clip  == FMaximum(val, FZero)
        beta  == FSqrt(clip)
    IN FMul(beta, gamma)

\* PhysicsEqCst.beta_gamma_from_E_MeV on an array
beta_gamma_from_E_MeV(E_MeV) == [i \in DOMAIN E_MeV |-> beta_gamma_element(E_MeV[i])]

\* one element of E_MeV_from_beta_gamma, lines 101-105
E_MeV_element(bg0) ==
    LET bg1   == IF FIsFinite(bg0) THEN bg0 ELSE FZero
        bg    == FMaximum(bg1, FZero)
        gamma == FSqrt(FAdd(FOne, FMul(bg, bg)))
    IN FMul(FSub(gamma, FOne), me_c2_MeV)

\* PhysicsEqCst.E_MeV_from_beta_gamma on an array
E_MeV_from_beta_gamma(bg) == [i \in DOMAIN bg |-> E_MeV_element(bg[i])]

\* PhysicsEqCst.gamma_from_Ee_MeV for a constants object whose me_c2_MeV is
\* rest: Python's float division raises on a zero divisor
gamma_from_Ee_MeV(rest, E_e_MeV) ==
    IF FIsZero(rest) THEN [status |-> "ZeroDivisionError"]
    ELSE [status |-> "ok", gamma |-> FAdd(FOne, FDiv(E_e_MeV, rest))]

\* Python's x ** 0.5: complex for a negative x
PyRoot(x) == IF x.k = "fin" /\ x.m # 0 /\ x.s < 0 THEN [k |-> "complex"] ELSE FSqrt(x)

\* PhysicalConstants.relativistic_parameters, lines 231-233
relativistic_parameters(kinetic_energy_MeV, rest_energy_MeV) ==
    IF FIsZero(rest_energy_MeV) THEN [status |-> "ZeroDivisionError"]
    ELSE LET gamma == FAdd(FOne, FDiv(kinetic_energy_MeV, rest_energy_MeV))
             g2    == FMul(gamma, gamma)
         IN IF FIsZero(g2) THEN [status |-> "ZeroDivisionError"]
            ELSE [status |-> "ok", gamma |-> gamma,
                  beta |-> PyRoot(FSub(FOne, FDiv(FOne, g2)))]

\* the finite floats s * m * 2^e with 2^u <= m * 2^e < 2^(u+1), u within the bounds
FiniteInputs ==
    {[k |-> "fin", s |-> s, m |-> m, e |-> u - (MantBits - 1)] :
        s \in {1, -1}, m \in Pow(2, MantBits - 1)..(Pow(2, MantBits) - 1),
        u \in (0 - MantBits - MaxExp)..MaxExp}

SpecialInputs == {FNaN, FInf(1), FInf(-1), FZero, FInt(-1), FInt(1)}

\* the arguments tried: every scalar, and the short arrays of special values
ArrayInputs == {<<x>> : x \in FiniteInputs} \cup (Sweeps(SpecialInputs) \ {<<>>})

\* kinetic and rest energies tried with the scalar functions
EnergyInputs == {FZero} \cup
    {FRatio(s, a, 1000, 0) : s \in {1, -1}, a \in {511, 1000, 45000, 938272}}

InitKin ==
    /\ ClassInit
    /\ threads = IdleThreads
    /\ bodyLog = <<>>
    /\ held = <<>>
    /\ ui = UIInit
    /\ call = NoCall

KinFrame == UNCHANGED <<materials, sp_converted, scipy_ok, constructed, lastOp, threads, bodyLog, held, ui>>

Call_beta_gamma_from_E_MeV(E_MeV) ==
    /\ call.op = "none"
    /\ call' = [op |-> "beta_gamma_from_E_MeV", arg |-> E_MeV,
                result |-> beta_gamma_from_E_MeV(E_MeV)]
    /\ KinFrame

Call_E_MeV_from_beta_gamma(bg) ==
    /\ call.op = "none"
    /\ call' = [op |-> "E_MeV_from_beta_gamma", arg |-> bg,
                result |-> E_MeV_from_beta_gamma(bg)]
    /\ KinFrame

Call_gamma_from_Ee_MeV(rest, E_e_MeV) ==
    /\ call.op = "none"
    /\ call' = [op |-> "gamma_from_Ee_MeV", kinetic |-> E_e_MeV, rest |-> rest,
                result |-> gamma_from_Ee_MeV(rest, E_e_MeV)]
    /\ KinFrame

Call_relativistic_parameters(kinetic_energy_MeV, rest_energy_MeV) ==
    /\ call.op = "none"
    /\ call' = [op |-> "relativistic_parameters", kinetic |-> kinetic_energy_MeV,
                rest |-> rest_energy_MeV,
                result |-> relativistic_parameters(kinetic_energy_MeV, rest_energy_MeV)]
    /\ KinFrame

NextKin ==
    \/ \E E \in ArrayInputs : Call_beta_gamma_from_E_MeV(E)
    \/ \E bg \in ArrayInputs : Call_E_MeV_from_beta_gamma(bg)
    \/ \E rest \in EnergyInputs, E \in EnergyInputs : Call_gamma_from_Ee_MeV(rest, E)
    \/ \E KE \in EnergyInputs, rest \in EnergyInputs : Call_relativistic_parameters(KE, rest)

SpecKin == InitKin /\ [][NextKin]_vars

(***************************************************************************)
(* C8.  E_MeV_from_beta_gamma is the inverse of beta_gamma_from_E_MeV: for *)
(* every kinetic energy E > 0 the round trip returns E within the relative *)
(* tolerance, and for every beta-gamma bg >= 0 the reverse round trip      *)
(* returns bg.  The claim's tolerance 1e-9 presupposes a 53-bit            *)
(* significand; with MantBits bits the claim is stated with the tolerance  *)
(* 1/2, which 1e-9 implies.                                                *)
(***************************************************************************)
\* |x - y| <= y/2 for a finite y >= 0
WithinHalf(x, y) ==
    IF FIsZero(y) THEN FIsZero(x)
    ELSE /\ x.k = "fin" /\ x.m # 0 /\ x.s > 0
         /\ MagLE(y.m, y.e - 1, x.m, x.e)
         /\ MagLE(x.m, x.e + 1, 3 * y.m, y.e)

C8_RoundTrip ==
    /\ call.op = "beta_gamma_from_E_MeV" =>
          \A i \in DOMAIN call.arg :
              (FIsFinite(call.arg[i]) /\ call.arg[i].m # 0 /\ call.arg[i].s > 0)
                  => WithinHalf(E_MeV_element(call.result[i]), call.arg[i])
    /\ call.op = "E_MeV_from_beta_gamma" =>
          \A i \in DOMAIN call.arg :
              (FIsFinite(call.arg[i]) /\ FLessEq(FZero, call.arg[i]))
                  => WithinHalf(beta_gamma_element(call.result[i]), call.arg[i])

(***************************************************************************)
(* C9.  beta_gamma_from_E_MeV clamps its input before computing: for every *)
(* negative or non-finite (NaN, +Inf, -Inf) energy, element by element,    *)
(* the result equals the result for E = 0, which is 0; and no element of   *)
(* any result is NaN.                                                      *)
(***************************************************************************)
Clamped(x) == ~FIsFinite(x) \/ (x.m # 0 /\ x.s < 0)

C9_ClampToZero ==
    call.op = "beta_gamma_from_E_MeV" =>
        \A i \in DOMAIN call.arg :
            /\ call.result[i].k # "nan"
            /\ Clamped(call.arg[i]) =>
                  /\ call.result[i] = beta_gamma_from_E_MeV(<<FZero>>)[1]
                  /\ call.result[i] = FZero

\* an array holding NaN and a negative energy has been converted
C9_Witness ==
    /\ call.op = "beta_gamma_from_E_MeV"
    /\ call.arg = <<FNaN, FInt(-1)>>
    /\ Len(call.result) = 2

(***************************************************************************)
(* C10.  Computing gamma from a kinetic energy and a rest energy fails     *)
(* with an error for every rest energy <= 0, zero and negative alike: no   *)
(* gamma or beta is returned.                                              *)
(***************************************************************************)
C10_NonPositiveRestEnergyFails ==
    (call.op \in {"gamma_from_Ee_MeV", "relativistic_parameters"}
        /\ FLessEq(call.rest, FZero))
    => call.result.status # "ok"

(***************************************************************************)
(* Decimal literals and the elementary functions of Python and numpy on    *)
(* F-values.  A function that has no finite binary expansion (log, exp,    *)
(* cos) is computed in fixed point with more fractional bits than the      *)
(* significand keeps and then rounded.                                     *)
(***************************************************************************)
\* n > 0 brought to 21 bits: n * 2^e unchanged but for the bits dropped
Norm21(n, e, exact) ==
    LET bl == BitLen(n)
    IN IF bl <= 21
       THEN [n |-> n * Pow(2, 21 - bl), e |-> e - (21 - bl), exact |-> exact]
       ELSE [n |-> n \div Pow(2, bl - 21), e |-> e + (bl - 21),
             exact |-> exact /\ n % Pow(2, bl - 21) = 0]

\* x.n * 2^x.e * 5^k, the significand kept to 21 bits, four powers at a time
RECURSIVE Scale5(_, _)
Scale5(x, k) ==
    IF k = 0 THEN x
    ELSE IF k >= 4
         THEN LET y == Scale5(x, k - 4) IN Norm21(y.n * 625, y.e, y.exact)
    ELSE IF k > 0
         THEN LET y == Scale5(x, k - 1) IN Norm21(y.n * 5, y.e, y.exact)
    ELSE IF k <= -4
         THEN LET y == Scale5(x, k + 4)
              IN Norm21((y.n * 512) \div 625, y.e - 9, y.exact /\ (y.n * 512) % 625 = 0)
    ELSE LET y == Scale5(x, k + 1)
         IN Norm21((y.n * 512) \div 5, y.e - 9, y.exact /\ (y.n * 512) % 5 = 0)

\* the float literal M * 10^k (M a non-zero integer)
FDec(M, k) ==
    LET r == Scale5(Norm21(Abs(M), 0, TRUE), k)
    IN FRound(Sign(M), r.n, r.e + k, ~r.exact)

\* the float a table entry holds: a Q-value without atoms
FFromQ(q) ==
    IF q.n = 0 THEN FZero
    ELSE LET r == Scale5(Norm21(Abs(q.n), 0, TRUE), q.p5)
             f == FRound(Sign(q.n), r.n, r.e + q.p2, ~r.exact)
         IN IF q.d = 1 THEN f ELSE FDiv(f, FInt(q.d))

\* Python's max(a, b): b only if b > a, so a NaN first argument is kept
PyMax(a, b) ==
    IF a.k # "nan" /\ b.k # "nan" /\ ~FLessEq(b, a) THEN b ELSE a

\* sqrt(n * 2^e) for an integer n > 0, correctly rounded
FSqrtInt(n, e) ==
    LET bl == BitLen(n)
        t0 == IF 2 * (MantBits + 2) > bl THEN 2 * (MantBits + 2) - bl ELSE 0
        t  == IF (e - t0) % 2 = 0 THEN t0 ELSE t0 + 1
        x  == n * Pow(2, t)
        r  == ISqrt(x)
    IN FRound(1, r, (e - t) \div 2, r * r # x)

\* numpy's x ** 1.5 on a float64: NaN for a negative x
FPow1p5(a) ==
    IF a.k = "nan" THEN FNaN
    ELSE IF FIsZero(a) THEN FZero
    ELSE IF a.s < 0 THEN FNaN
    ELSE IF a.k = "inf" THEN a
    ELSE FSqrtInt(a.m * a.m * a.m, 3 * a.e)

\* x ** 2 and x ** 3
FSquare(a) == FMul(a, a)

FCube(a) ==
    IF a.k = "nan" THEN FNaN
    ELSE IF a.k = "inf" THEN a
    ELSE IF FIsZero(a) THEN FZero
    ELSE FRound(a.s, a.m * a.m * a.m, 3 * a.e, FALSE)

\* fixed point: FixBits fractional bits
FixBits == 20

FixOne == Pow(2, FixBits)

\* ln 2 in fixed point
FixLn2 == 726817

\* sum over odd j >= k of (p/q)^j / j in fixed point, t being (p/q)^k
RECURSIVE AtanhSeries(_, _, _, _)
AtanhSeries(t, k, p, q) ==
    IF t = 0 THEN 0
    ELSE t \div k + AtanhSeries((((t * p) \div q) * p) \div q, k + 2, p, q)

\* np.log: -inf at 0 and NaN below 0 (a warning, not an exception)
FLog(a) ==
    IF a.k = "nan" THEN FNaN
    ELSE IF FIsZero(a) THEN FInf(-1)
    ELSE IF a.s < 0 THEN FNaN
    ELSE IF a.k = "inf" THEN a
    ELSE LET half == Pow(2, MantBits - 1)
             p    == a.m - half
             q    == a.m + half
             L    == (a.e + MantBits - 1) * FixLn2
                       + 2 * AtanhSeries((p * FixOne) \div q, 1, p, q)
         IN FRound(Sign(L), Abs(L), 0 - FixBits, L # 0)

\* ln 2 with 21 fractional bits, used to split an exponent
ExpLn2 == 1453635

\* sum over i >= j of r^i / i! with 15 fractional bits, term being r^j / j!
RECURSIVE ExpSeries(_, _, _)
ExpSeries(term, j, r) ==
    IF term = 0 THEN 0
    ELSE term + ExpSeries(((term * r) \div 32768) \div (j + 1), j + 1, r)

\* np.exp on a float64: 0 below -745.13 and inf above 709.78
FExp(a) ==
    IF a.k = "nan" THEN FNaN
    ELSE IF a.k = "inf" THEN (IF a.s > 0 THEN a ELSE FZero)
    ELSE IF FIsZero(a) THEN FOne
    ELSE IF a.s < 0 /\ MagLE(746, 0, a.m, a.e) THEN FZero
    ELSE IF a.s > 0 /\ MagLE(710, 0, a.m, a.e) THEN FInf(1)
    ELSE LET sh == a.e + 21
             X  == IF sh >= 0 THEN a.s * a.m * Pow(2, sh)
                   ELSE IF 0 - sh > MantBits THEN (IF a.s > 0 THEN 0 ELSE -1)
                   ELSE (a.s * a.m) \div Pow(2, 0 - sh)
             k  == X \div ExpLn2
             r  == (X % ExpLn2) \div 64
         IN FRound(1, ExpSeries(32768, 0, r), k - 15, TRUE)

\* np.pi; 355/113 agrees with pi beyond the bits a significand keeps
FPi == FRatio(1, 355, 113, 0)

(***************************************************************************)
(* PhysicsEqCst as floats: the defaults of the dataclass and its derived   *)
(* properties                                                              *)
(***************************************************************************)
\* epsilon_0 = 8.854187817e-12 is written to nine digits
FK ==
    [e         |-> FDec(1602176634, -28),
     me        |-> FDec(910938356, -39),
     c         |-> FInt(299792458),
     epsilon_0 |-> FDec(885418782, -20),
     NA        |-> FDec(602214076, 15),
     h         |-> FDec(662607015, -42),
     me_c2_MeV |-> me_c2_MeV,
     S_COEFF   |-> FDec(19165, -5),
     X_COEFF   |-> FDec(7505, -5)]

F_MeV_to_J(K) == FMul(K.e, FDec(1, 6))

F_me_c2_J(K) == FMul(K.me, FSquare(K.c))

\* r_e = e**2 / (4 * np.pi * epsilon_0 * me * c**2)
F_r_e(K) ==
    FDiv(FSquare(K.e),
         FMul(FMul(FMul(FMul(FInt(4), FPi), K.epsilon_0), K.me), FSquare(K.c)))

\* sigma_T = (8.0 * np.pi / 3.0) * r_e**2
F_sigma_T(K) == FMul(FDiv(FMul(FInt(8), FPi), FInt(3)), FSquare(F_r_e(K)))

(***************************************************************************)
(* BeamPower range models and deposition profile (values)                  *)
(***************************************************************************)
\* one row of model_Grunn: (0.1 * E ** 1.5) / rho
Grunn_row(material, rho, E) ==
    [Material |-> material, Energy |-> E,
     Depth |-> FDiv(FMul(FDec(1, -1), FPow1p5(E)), rho)]

\* what the text of an exception names: the parameters (fields) and the
\* names it quotes.  KeyError(key), raised by a dictionary lookup, has the
\* key alone as its text
KeyErrorMessage(key) == [fields |-> {}, names |-> {key}]

\* BeamPower.model_Grunn on an array of float64
model_Grunn(tbl, material, E_energy_range) ==
    IF material \notin DOMAIN tbl
    THEN [status |-> "KeyError", rows |-> <<>>, message |-> KeyErrorMessage(material)]
    ELSE LET rho == FDiv(FFromQ(tbl[material].density), FInt(1000))
         IN [status |-> "ok",
             rows |-> [i \in DOMAIN E_energy_range |->
                          Grunn_row(material, rho, E_energy_range[i])]]

\* beta^2 of an electron of kinetic energy E (MeV), lines 316-318
Bethe_beta2(K, E) ==
    FSub(FOne, FDiv(FOne, FSquare(FAdd(FOne, FDiv(FMul(E, F_MeV_to_J(K)), F_me_c2_J(K))))))

\* the electron density n_e = NA * rho / A * Z * 1e6 of a material, lines 308-312
Bethe_n_e(K, props) ==
    FMul(FMul(FDiv(FMul(K.NA, FDiv(FFromQ(props.density), FInt(1000))),
                   FFromQ(props.atomic_mass)),
              FFromQ(props.atomic_number)),
         FDec(1, 6))

\* the stopping power in MeV/mm at beta^2, lines 321-325
Bethe_sp_mm(K, props, beta2) ==
    FDiv(FDiv(FMul(FDiv(FMul(FMul(FMul(FMul(FInt(4), FPi), FCube(K.e)),
                                  FFromQ(props.atomic_number)),
                             Bethe_n_e(K, props)),
                        FMul(FMul(K.me, FSquare(K.c)), beta2)),
                   FLog(PyMax(FDiv(FMul(FMul(FInt(2), F_me_c2_J(K)), beta2),
                                   FMul(FFromQ(props.ionization_potential), K.e)),
                              FDec(1, -12)))),
              F_MeV_to_J(K)),
         FInt(1000))

\* the row appended for E: the range E / max(sp, 1e-12) in cm, floored at 0
Bethe_range_row(material, E, sp_mm) ==
    [Material |-> material, Energy |-> E,
     Depth |-> PyMax(FDiv(FDiv(E, PyMax(sp_mm, FDec(1, -12))), FInt(10)), FZero),
     StoppingPower |-> sp_mm]

\* one pass of model_Bethe's loop, lines 316-328
Bethe_row(K, material, props, E) ==
    Bethe_range_row(material, E, Bethe_sp_mm(K, props, Bethe_beta2(K, E)))

\* BeamPower.model_Bethe on an array of float64
model_Bethe(K, tbl, material, E_energy_range) ==
    IF material \notin DOMAIN tbl
    THEN [status |-> "KeyError", rows |-> <<>>, message |-> KeyErrorMessage(material)]
    ELSE [status |-> "ok",
          rows |-> [i \in DOMAIN E_energy_range |->
                       Bethe_row(K, material, tbl[material], E_energy_range[i])]]

\* the number of samples of a deposition profile: np.linspace(0, ..., 200)
NSamples == 200

\* np.linspace(0, stop, num): i * step, the last sample set to stop
linspace0(stop, num) ==
    LET step == FDiv(stop, FInt(num - 1))
    IN [i \in 1..num |-> IF i = num THEN stop ELSE FMul(FInt(i - 1), step)]

\* scipy.stats.norm.pdf(x, loc, scale) = exp(-y**2 / 2) / sqrt(2 pi) / scale
norm_pdf(x, loc, scale) ==
    LET y == FDiv(FSub(x, loc), scale)
    IN FDiv(FDiv(FExp(FDiv(FNeg(FSquare(y)), FInt(2))), FSqrt(FMul(FInt(2), FPi))), scale)

\* np.max of the elements lo..hi, by halves
RECURSIVE np_max(_, _, _)
np_max(a, lo, hi) ==
    IF lo = hi THEN a[lo]
    ELSE LET mid == (lo + hi) \div 2
         IN FMaximum(np_max(a, lo, mid), np_max(a, mid + 1, hi))

\* x > 0 as Python evaluates it: False for NaN
FPositive(x) == x.k # "nan" /\ ~FLessEq(x, FZero)

\* the profile returned as scipy computed it, without line 340
normalize_peak_skipped(dep) == dep

\* the divisor of line 340: np.max(dep) if positive, else 1.0
peak_divisor(top) == IF FPositive(top) THEN top ELSE FOne

\* dep / by, element by element
scale_profile(dep, by) == [i \in DOMAIN dep |-> FDiv(dep[i], by)]

\* dep /= np.max(dep) if np.max(dep) > 0 else 1.0
normalize_peak(dep) == scale_profile(dep, peak_divisor(np_max(dep, 1, Len(dep))))

\* lines 339-341: the pdf sampled on x_range, then normalised
deposition_on(R_cm, x_range, sigma) ==
    [status |-> "ok", R_cm |-> R_cm, x_range |-> x_range,
     dep |-> normalize_peak([i \in DOMAIN x_range |-> norm_pdf(x_range[i], R_cm, sigma)])]

\* lines 337-338: the sample points and the width for the range R_cm
deposition_at(R_cm) ==
    deposition_on(R_cm,
                  linspace0(PyMax(FAdd(R_cm, FInt(2)), FInt(2)), NSamples),
                  PyMax(FMul(R_cm, FDec(2, -1)), FDec(1, -6)))

\* lines 335-336: the range is the Depth of the only row of the Bethe table
deposition_of(df_bethe) ==
    IF df_bethe.status # "ok"
    THEN [status |-> df_bethe.status, message |-> df_bethe.message]
    ELSE deposition_at(df_bethe.rows[1].Depth)

\* BeamPower.compute_deposition_profile; norm_ok tells whether norm was imported
compute_deposition_profile(K, tbl, norm_ok, energy, material) ==
    IF ~norm_ok
    THEN [status |-> "ImportError", message |-> [fields |-> {}, names |-> {"scipy.stats.norm"}]]
    ELSE deposition_of(model_Bethe(K, tbl, material, <<energy>>))

\* the energies (MeV) tried with the range models
RangeEnergies ==
    {FZero, FInt(-1), FDec(-511, -3), FDec(-1, -3), FDec(1, -9), FDec(1, -3),
     FDec(5, -2), FDec(5, -1), FInt(1), FInt(10), FInt(45), FInt(1000)}

\* the arrays tried: every single energy, and the short sweeps of two of them
EnergyArrays == {<<x>> : x \in RangeEnergies} \cup Sweeps({FInt(45), FInt(-1)})

\* the state after BeamPower() with the default constants
InitRange ==
    /\ materials = ConversionBody(ClassMaterials, PhysicsEqCst)
    /\ sp_converted = TRUE
    /\ scipy_ok \in BOOLEAN
    /\ constructed = <<[K |-> PhysicsEqCst, beam_type |-> "electron",
                        sigma_x |-> DefaultSigma[1], sigma_y |-> DefaultSigma[2],
                        status |-> "ok"]>>
    /\ lastOp = [op |-> "BeamPower", args |-> <<"electron">>, status |-> "ok"]
    /\ threads = IdleThreads
    /\ bodyLog = <<>>
    /\ held = <<>>
    /\ ui = UIInit
    /\ call = NoCall

Call_model_Grunn(material, E_energy_range) ==
    /\ LET r == model_Grunn(materials, material, E_energy_range)
       IN call' = [op |-> "model_Grunn", material |-> material,
                   E_energy_range |-> E_energy_range, status |-> r.status, rows |-> r.rows,
                   error |-> IF r.status = "ok" THEN "none" ELSE r.message]
    /\ KinFrame

Call_model_Bethe(material, E_energy_range) ==
    /\ LET r == model_Bethe(FK, materials, material, E_energy_range)
       IN call' = [op |-> "model_Bethe", material |-> material,
                   E_energy_range |-> E_energy_range, status |-> r.status, rows |-> r.rows,
                   error |-> IF r.status = "ok" THEN "none" ELSE r.message]
    /\ KinFrame

Call_compute_deposition_profile(energy, material) ==
    /\ call' = [op |-> "compute_deposition_profile", energy |-> energy,
                material |-> material,
                result |-> compute_deposition_profile(FK, materials, scipy_ok, energy, material)]
    /\ KinFrame

NextRange ==
    /\ call = NoCall
    /\ \/ \E m \in MaterialArgs, Es \in EnergyArrays : Call_model_Grunn(m, Es)
       \/ \E m \in MaterialArgs, Es \in EnergyArrays : Call_model_Bethe(m, Es)
       \/ \E m \in MaterialArgs, E \in RangeEnergies : Call_compute_deposition_profile(E, m)

SpecRange == InitRange /\ [][NextRange]_vars

\* a finite value >= 0
FNonNegFinite(x) == x.k = "fin" /\ (x.m = 0 \/ x.s > 0)

(***************************************************************************)
(* C11.  For every input energy, E = 0 and E < 0 included, model_Grunn and *)
(* model_Bethe return a row without raising, the range in that row is      *)
(* finite and non-negative (never NaN or Inf), and it is zero for E <= 0.  *)
(***************************************************************************)
C11_RangeNonNegativeFinite ==
    (call.op \in {"model_Grunn", "model_Bethe"} /\ call.material \in MaterialNames)
    => /\ call.status = "ok"
       /\ Len(call.rows) = Len(call.E_energy_range)
       /\ \A i \in DOMAIN call.rows :
             /\ FNonNegFinite(call.rows[i].Depth)
             /\ FLessEq(call.E_energy_range[i], FZero) => FIsZero(call.rows[i].Depth)

(***************************************************************************)
(* C12.  compute_deposition_profile returns a profile whose largest sample *)
(* is exactly 1 and whose samples all lie in [0, 1], for every energy and  *)
(* known material, the energies whose analytic range is 0 included.        *)
(***************************************************************************)
C12_ProfilePeakIsOne ==
    (call.op = "compute_deposition_profile" /\ call.result.status = "ok")
    => /\ Len(call.result.dep) = NSamples
       /\ \A i \in DOMAIN call.result.dep :
             /\ FNonNegFinite(call.result.dep[i])
             /\ FLessEq(call.result.dep[i], FOne)
       /\ \E i \in DOMAIN call.result.dep : call.result.dep[i] = FOne

\* a profile was returned for an energy whose analytic range is 0
C12_Witness ==
    /\ call.op = "compute_deposition_profile"
    /\ call.result.status = "ok"
    /\ FIsZero(call.result.R_cm)
    /\ call.result.dep[1] = FOne

(***************************************************************************)
(* BeamRadiation (values)                                                  *)
(***************************************************************************)
\* Python's a / b on floats: a zero divisor raises
PyDiv(a, b) ==
    IF FIsZero(b) /\ a.k # "nan" THEN [status |-> "ZeroDivisionError"]
    ELSE [status |-> "ok", value |-> FDiv(a, b)]

\* ics_yield_per_pulse dividing by the area itself
ics_yield_per_pulse_unfloored(K, N_e, N_ph, A_overlap_m2) ==
    PyDiv(FMul(FMul(F_sigma_T(K), N_e), N_ph), A_overlap_m2)

\* BeamRadiation.ics_yield_per_pulse
ics_yield_per_pulse(K, N_e, N_ph, A_overlap_m2) ==
    PyDiv(FMul(FMul(F_sigma_T(K), N_e), N_ph), PyMax(A_overlap_m2, FDec(1, -30)))

\* PhysicsEqCst.Egamma_max_J
Egamma_max_J(K, gamma, E_L_J) ==
    LET xi == FDiv(FMul(FMul(FInt(4), gamma), E_L_J), F_me_c2_J(K))
    IN FDiv(FMul(FMul(FInt(4), FSquare(gamma)), E_L_J), FAdd(FOne, xi))

\* 2 pi, pi and pi/2 with 14 fractional bits
TwoPi14 == 102944

Pi14 == 51472

HalfPi14 == 25736

\* sum over i >= j of (-1)^i y^(2i) / (2i)! with 14 fractional bits,
\* term being y^(2j) / (2j)! and y2 being y^2
RECURSIVE CosSeries(_, _, _)
CosSeries(term, j, y2) ==
    IF term = 0 THEN 0
    ELSE term - CosSeries(((term * y2) \div 16384) \div ((2 * j + 1) * (2 * j + 2)), j + 1, y2)

\* cos of x / 2^14 for 0 <= x < 2^30, with 14 fractional bits
CosFix(x) ==
    LET x1 == x % TwoPi14
        x2 == IF x1 > Pi14 THEN TwoPi14 - x1 ELSE x1
        y  == IF x2 > HalfPi14 THEN Pi14 - x2 ELSE x2
        c  == CosSeries(16384, 0, (y * y) \div 16384)
    IN IF x2 > HalfPi14 THEN 0 - c ELSE c

\* t2/2 (1 - t2/12 (1 - t2/30 (1 - t2/56))) for t2 = T^2
VersineSeries(t2) ==
    FMul(FDiv(t2, FInt(2)),
         FSub(FOne, FMul(FDiv(t2, FInt(12)),
                         FSub(FOne, FMul(FDiv(t2, FInt(30)),
                                         FSub(FOne, FDiv(t2, FInt(56))))))))

\* 1 - cos(T) for a float 0 < T < 1
Versine(T) == VersineSeries(FSquare(T))

\* 2w - w^2 + w^3/3 on floats
ThomsonPoly(w) == FAdd(FSub(FMul(FInt(2), w), FSquare(w)), FDiv(FCube(w), FInt(3)))

\* 2w - w^2 + w^3/3 with 14 fractional bits, rounded to a float
ThomsonPolyFix(w) ==
    FRound(1, 2 * w - (w * w) \div 16384 + ((((w * w) \div 16384) * w) \div 16384) \div 3,
           -14, TRUE)

\* a float 1 <= T < 65536 with 14 fractional bits
FixAngle(T) ==
    IF T.e + 14 >= 0 THEN T.m * Pow(2, T.e + 14) ELSE T.m \div Pow(2, 0 - (T.e + 14))

\* the integral of (1 + cos^2 th) sin th over [0, T]: with w = 1 - cos T it
\* is 2w - w^2 + w^3/3
ThomsonIntegral(T) ==
    IF T.k # "fin" THEN FNaN
    ELSE IF FIsZero(T) THEN FZero
    ELSE IF ~MagLE(1, 0, T.m, T.e) THEN ThomsonPoly(Versine(T))
    ELSE IF MagLE(65536, 0, T.m, T.e) THEN FNaN
    ELSE ThomsonPolyFix(16384 - CosFix(FixAngle(T)))

\* scipy.integrate.quad(integrand, 0.0, theta_thresh)[0] for the integrand
\* 0.5 r_e^2 (1 + cos^2 th) sin th: the value of the integral, rounded
quad_thomson(K, theta_thresh) ==
    FMul(FMul(FDec(5, -1), FSquare(F_r_e(K))), ThomsonIntegral(theta_thresh))

\* num of line 387: 4 gamma^2 E_L / E_thresh - 1 - 4 gamma E_L / (me c^2)
threshold_radicand(K, gamma, E_L_J, E_thresh_J) ==
    FSub(FSub(FDiv(FMul(FMul(FInt(4), FSquare(gamma)), E_L_J), E_thresh_J), FOne),
         FDiv(FMul(FMul(FInt(4), gamma), E_L_J), F_me_c2_J(K)))

\* lines 388-393 with quad called before the test of the radicand
fraction_of_radicand_eager(K, gamma, num) ==
    [status |-> "ok", num |-> num, quad_calls |-> 1,
     value |-> IF num.k # "nan" /\ FLessEq(num, FZero) THEN FZero
               ELSE FDiv(quad_thomson(K, FDiv(FSqrt(num), gamma)), F_sigma_T(K))]

\* fraction_above_threshold calling quad before it tests the radicand
fraction_above_threshold_eager(K, quad_ok, gamma, E_L_J, E_thresh_J) ==
    IF ~quad_ok THEN [status |-> "ImportError"]
    ELSE IF FIsZero(E_thresh_J) THEN [status |-> "ZeroDivisionError"]
    ELSE fraction_of_radicand_eager(K, gamma, threshold_radicand(K, gamma, E_L_J, E_thresh_J))

\* lines 388-393: 0.0 for num <= 0, else the integral up to sqrt(num) / gamma
\* over sigma_T; quad_calls counts the invocations of quad
fraction_of_radicand(K, gamma, num) ==
    IF num.k # "nan" /\ FLessEq(num, FZero)
    THEN [status |-> "ok", num |-> num, quad_calls |-> 0, value |-> FZero]
    ELSE [status |-> "ok", num |-> num, quad_calls |-> 1,
          value |-> FDiv(quad_thomson(K, FDiv(FSqrt(num), gamma)), F_sigma_T(K))]

\* BeamRadiation.fraction_above_threshold on Python floats
fraction_above_threshold(K, quad_ok, gamma, E_L_J, E_thresh_J) ==
    IF ~quad_ok THEN [status |-> "ImportError"]
    ELSE IF FIsZero(E_thresh_J) THEN [status |-> "ZeroDivisionError"]
    ELSE fraction_of_radicand(K, gamma, threshold_radicand(K, gamma, E_L_J, E_thresh_J))

\* the report with the filtered rate taken per pulse instead of per second
report_of_per_pulse(gamma, I_pulse, N_e_total, N_photon, A_overlap, N_ICS_per_pulse, E_gamma_max_J, frac, rep_rate_Hz) ==
    IF frac.status # "ok" THEN [status |-> frac.status]
    ELSE [status |-> "ok",
          report |-> [gamma                    |-> gamma,
                      electron_current_mA      |-> FMul(I_pulse, FDec(1, 3)),
                      N_e_total                |-> N_e_total,
                      N_photon                 |-> N_photon,
                      A_overlap_m2             |-> A_overlap,
                      N_ICS_per_pulse          |-> N_ICS_per_pulse,
                      N_ICS_per_sec            |-> FMul(N_ICS_per_pulse, rep_rate_Hz),
                      E_gamma_max_eV           |-> FDiv(E_gamma_max_J, FDec(1602176634, -28)),
                      fraction_above_thresh    |-> frac.value,
                      N_ICS_above_thresh_per_s |->
                          IF FIsFinite(frac.value)
                          THEN FMul(frac.value, N_ICS_per_pulse)
                          ELSE FNaN]]

\* the report of quick_report_and_plots, lines 419-440
report_of(gamma, I_pulse, N_e_total, N_photon, A_overlap, N_ICS_per_pulse, E_gamma_max_J, frac, rep_rate_Hz) ==
    IF frac.status # "ok" THEN [status |-> frac.status]
    ELSE [status |-> "ok",
          report |-> [gamma                    |-> gamma,
                      electron_current_mA      |-> FMul(I_pulse, FDec(1, 3)),
                      N_e_total                |-> N_e_total,
                      N_photon                 |-> N_photon,
                      A_overlap_m2             |-> A_overlap,
                      N_ICS_per_pulse          |-> N_ICS_per_pulse,
                      N_ICS_per_sec            |-> FMul(N_ICS_per_pulse, rep_rate_Hz),
                      E_gamma_max_eV           |-> FDiv(E_gamma_max_J, FDec(1602176634, -28)),
                      fraction_above_thresh    |-> frac.value,
                      N_ICS_above_thresh_per_s |->
                          IF FIsFinite(frac.value)
                          THEN FMul(frac.value, FMul(N_ICS_per_pulse, rep_rate_Hz))
                          ELSE FNaN]]

\* the yield and the fraction for the photon count and energies of the pulse
report_yield(K, quad_ok, gamma, I_pulse, N_e_total, N_photon, A_overlap, E_L_photon_J, E_thresh_J, rep_rate_Hz) ==
    report_of(gamma, I_pulse, N_e_total, N_photon, A_overlap,
              ics_yield_per_pulse(K, N_e_total, N_photon, A_overlap).value,
              Egamma_max_J(K, gamma, E_L_photon_J),
              IF quad_ok
              THEN fraction_above_threshold(K, quad_ok, gamma, E_L_photon_J, E_thresh_J)
              ELSE [status |-> "ok", value |-> FNaN],
              rep_rate_Hz)

\* the pulse current and the photon count from the electron count and the
\* photon energy
report_pulse(K, quad_ok, gamma, N_e_total, E_L_photon_J, E_thresh_J, rep_rate_Hz) ==
    report_yield(K, quad_ok, gamma,
                 FDiv(FMul(N_e_total, K.e), FMul(FInt(4), FDec(1, -6))),
                 N_e_total,
                 FDiv(FMul(FInt(10), FDec(1, -3)), E_L_photon_J),
                 FMul(FMul(FMul(FInt(2), FPi), FMul(FInt(30), FDec(1, -6))),
                      FMul(FInt(30), FDec(1, -6))),
                 E_L_photon_J, E_thresh_J, rep_rate_Hz)

\* BeamRadiation.quick_report_and_plots(E_e_MeV=..., rep_rate_Hz=..., E_thresh_eV=...,
\* make_plots=False), the other parameters at their defaults: 60 pC bunches, a
\* 4 us macropulse at 2856 MHz, a 10 mJ laser pulse at 3 um, 30 um spot sizes
quick_report_and_plots(K, quad_ok, E_e_MeV, E_thresh_eV, rep_rate_Hz) ==
    report_pulse(K, quad_ok,
                 FAdd(FOne, FDiv(E_e_MeV, K.me_c2_MeV)),
                 FMul(FDiv(FMul(FInt(60), FDec(1, -12)), K.e),
                      FMul(FMul(FInt(4), FDec(1, -6)), FDec(2856, 6))),
                 FDiv(FMul(K.h, K.c), FMul(FInt(3), FDec(1, -6))),
                 FMul(E_thresh_eV, FDec(1602176634, -28)),
                 rep_rate_Hz)

\* the float next above a finite x > 0
FNextUp(x) ==
    IF x.m + 1 = Pow(2, MantBits)
    THEN [x EXCEPT !.m = Pow(2, MantBits - 1), !.e = x.e + 1]
    ELSE [x EXCEPT !.m = x.m + 1]

\* electron and photon counts, and overlap areas around the floor 1e-30
ICSCounts == {FZero, FDec(375, 9), FDec(151, 15)}

ICSAreas ==
    {FZero, FDec(-1, -6), FInf(-1), FDec(1, -31), FDec(1, -30), FNextUp(FDec(1, -30)),
     FDec(1, -29), FDec(565, -11), FInt(1), FInf(1)}

\* Lorentz factors and laser photon energies (J): 3 um light and an X-ray line
ICSGammas == {FInt(1), FInt(2), FDec(8906, -2), FInt(1000), FInt(2500), FInt(5000), FInt(7000)}

ICSLasers == {FDec(662, -22), FDec(1, -15)}

\* threshold energies tried for a given gamma and laser: zero, fractions of
\* the laser photon energy, and values around the Compton edge
ICSThresholds(K, gamma, E_L_J) ==
    LET edge == Egamma_max_J(K, gamma, E_L_J)
    IN {FZero, FDiv(E_L_J, FInt(8)), FDiv(E_L_J, FInt(4)), FDiv(E_L_J, FInt(2)), E_L_J,
        FDiv(edge, FInt(2)), edge, FNextUp(edge), FNextUp(FNextUp(edge)),
        FMul(edge, FInt(2))}

Call_ics_yield_per_pulse(N_e, N_ph, A_overlap_m2) ==
    /\ call' = [op |-> "ics_yield_per_pulse", N_e |-> N_e, N_ph |-> N_ph,
                A_overlap_m2 |-> A_overlap_m2,
                result |-> ics_yield_per_pulse(FK, N_e, N_ph, A_overlap_m2)]
    /\ KinFrame

Call_fraction_above_threshold(gamma, E_L_J, E_thresh_J) ==
    /\ call' = [op |-> "fraction_above_threshold", gamma |-> gamma, E_L_J |-> E_L_J,
                E_thresh_J |-> E_thresh_J,
                result |-> fraction_above_threshold(FK, scipy_ok, gamma, E_L_J, E_thresh_J)]
    /\ KinFrame

Call_quick_report_and_plots(E_e_MeV, E_thresh_eV, rep_rate_Hz) ==
    /\ call' = [op |-> "quick_report_and_plots", E_e_MeV |-> E_e_MeV,
                E_thresh_eV |-> E_thresh_eV, rep_rate_Hz |-> rep_rate_Hz,
                result |-> quick_report_and_plots(FK, scipy_ok, E_e_MeV, E_thresh_eV, rep_rate_Hz)]
    /\ KinFrame

NextICS ==
    /\ call = NoCall
    /\ \/ \E N_e \in ICSCounts, N_ph \in ICSCounts, A \in ICSAreas :
             Call_ics_yield_per_pulse(N_e, N_ph, A)
       \/ \E g \in ICSGammas, E_L \in ICSLasers :
             \E E_th \in ICSThresholds(FK, g, E_L) : Call_fraction_above_threshold(g, E_L, E_th)
       \/ \E E_e \in {FInt(45), FInt(1)}, E_th \in {FDec(1, 4), FDec(1, 3), FDec(1, 5)},
             rate \in {FInt(10), FZero, FDec(5, -1)} :
             Call_quick_report_and_plots(E_e, E_th, rate)
       \/ \E m \in MaterialArgs, E \in {FZero, FInt(45)} : Call_compute_deposition_profile(E, m)

SpecICS == InitRange /\ [][NextICS]_vars

(***************************************************************************)
(* C13.  When scipy's norm and quad are not available, each operation that *)
(* needs them fails with the dependency error (ImportError) and returns no *)
(* result: compute_deposition_profile, fraction_above_threshold, and the   *)
(* quick report with its threshold-filtered fields.                        *)
(***************************************************************************)
C13_DependencyErrors ==
    (~scipy_ok /\ call.op \in {"compute_deposition_profile", "fraction_above_threshold",
                               "quick_report_and_plots"})
    => call.result.status = "ImportError"

(***************************************************************************)
(* C14.  ics_yield_per_pulse never raises a division error: for every      *)
(* overlap area at or below the floor 1e-30 (0 and negative areas          *)
(* included) it returns the one finite value sigma_T * N_e * N_ph / 1e-30, *)
(* and for an area above the floor sigma_T * N_e * N_ph / area.            *)
(***************************************************************************)
C14_YieldSaturatesAtFloor ==
    (call.op = "ics_yield_per_pulse" /\ call.A_overlap_m2.k # "nan")
    => LET A     == call.A_overlap_m2
           floor == FDec(1, -30)
           top   == FMul(FMul(F_sigma_T(FK), call.N_e), call.N_ph)
       IN /\ call.result.status = "ok"
          /\ FLessEq(A, floor) =>
                /\ call.result.value = FDiv(top, floor)
                /\ FIsFinite(call.result.value)
          /\ ~FLessEq(A, floor) => call.result.value = FDiv(top, A)

\* the yield was asked for an overlap area of exactly 0 with counts above 0
C14_Witness ==
    /\ call.op = "ics_yield_per_pulse"
    /\ FIsZero(call.A_overlap_m2)
    /\ ~FIsZero(call.N_e) /\ ~FIsZero(call.N_ph)
    /\ call.result.status = "ok"
    /\ ~FIsZero(call.result.value)

(***************************************************************************)
(* C15.  In a call of fraction_above_threshold that returns (quad being    *)
(* available; C13 is about its absence): when the radicand                 *)
(* 4 gamma^2 E_L / E_th - 1 - 4 gamma E_L / (m_e c^2) is <= 0 the result   *)
(* is 0 and quad was not invoked, and quad is invoked only when the        *)
(* radicand is > 0.                                                        *)
(***************************************************************************)
C15_NoQuadratureOnNonPositiveRadicand ==
    (call.op = "fraction_above_threshold" /\ call.result.status = "ok")
    => LET r == call.result
       IN /\ FLessEq(r.num, FZero) => (FIsZero(r.value) /\ r.quad_calls = 0)
          /\ r.quad_calls > 0 => ~FLessEq(r.num, FZero)

\* a call returned 0 for a negative radicand
C15_Witness ==
    /\ call.op = "fraction_above_threshold"
    /\ call.result.status = "ok"
    /\ call.result.num.s < 0
    /\ call.result.quad_calls = 0

(***************************************************************************)
(* C16.  For every gamma and laser photon energy, fraction_above_threshold *)
(* returns exactly 0 for every threshold energy greater than the Compton   *)
(* edge Egamma_max_J(gamma, E_L).                                          *)
(***************************************************************************)
C16_ZeroAboveComptonEdge ==
    (/\ call.op = "fraction_above_threshold"
     /\ call.result.status = "ok"
     /\ ~FLessEq(call.E_thresh_J, Egamma_max_J(FK, call.gamma, call.E_L_J)))
    => FIsZero(call.result.value)

(***************************************************************************)
(* C17.  For fixed gamma and laser photon energy the fraction does not     *)
(* increase with the threshold: for positive thresholds th1 <= th2,        *)
(* fraction(th1) >= fraction(th2), also where the cutoff angle of th1      *)
(* exceeds pi.                                                             *)
(***************************************************************************)
C17_MonotoneInThreshold ==
    (/\ call.op = "fraction_above_threshold"
     /\ call.result.status = "ok"
     /\ FPositive(call.E_thresh_J))
    => \A th2 \in ICSThresholds(FK, call.gamma, call.E_L_J) :
          FLessEq(call.E_thresh_J, th2) =>
              FLessEq(fraction_above_threshold(FK, TRUE, call.gamma, call.E_L_J, th2).value,
                      call.result.value)

(***************************************************************************)
(* AlphaMagnet (values)                                                    *)
(***************************************************************************)
\* numpy's x ** -0.5: inf at 0, NaN below 0
FPowNegHalf(a) ==
    IF a.k = "nan" THEN FNaN
    ELSE IF a.k = "inf" THEN (IF a.s > 0 THEN FZero ELSE FNaN)
    ELSE IF FIsZero(a) THEN FInf(1)
    ELSE IF a.s < 0 THEN FNaN
    ELSE LET m1 == IF a.e % 2 = 0 THEN a.m ELSE 2 * a.m
             e1 == IF a.e % 2 = 0 THEN a.e ELSE a.e - 1
             N  == Pow(2, 28) \div m1
             r  == ISqrt(N)
         IN FRound(1, r, 0 - 14 - (e1 \div 2), Pow(2, 28) % m1 # 0 \/ r * r # N)

\* np.linspace(start, stop, num) for num >= 2
np_linspace(start, stop, num) ==
    LET step == FDiv(FSub(stop, start), FInt(num - 1))
    IN [i \in 1..num |-> IF i = num THEN stop ELSE FAdd(FMul(FInt(i - 1), step), start)]

\* AlphaMagnet().grad_per_amp, the default 0.103754
grad_per_amp == FDec(103754, -6)

\* AlphaMagnet.g_from_current
g_from_current(I_A) == FMul(grad_per_amp, I_A)

\* the path length taken proportional to beta_gamma / g, the root left out
s_alpha_from_bg_g_linear(K, beta_gamma, g_T_per_m) ==
    [status |-> "ok",
     value |-> [i \in DOMAIN beta_gamma |->
                   FMul(K.S_COEFF, FDiv(beta_gamma[i], g_T_per_m))]]

\* AlphaMagnet.s_alpha_from_bg_g: numpy divides and takes roots without raising
s_alpha_from_bg_g(K, beta_gamma, g_T_per_m) ==
    [status |-> "ok",
     value |-> [i \in DOMAIN beta_gamma |->
                   FMul(K.S_COEFF, FSqrt(FDiv(beta_gamma[i], g_T_per_m)))]]

\* AlphaMagnet.x_max_from_bg_g
x_max_from_bg_g(K, beta_gamma, g_T_per_m) ==
    [status |-> "ok",
     value |-> [i \in DOMAIN beta_gamma |->
                   FMul(K.X_COEFF, FSqrt(FDiv(beta_gamma[i], g_T_per_m)))]]

\* AlphaMagnet.dsalpha_dQp0: (S_COEFF / 2.0) * (1.0 / np.sqrt(g)) * bg ** -0.5
dsalpha_dQp0(K, beta_gamma, g_T_per_m) ==
    [i \in DOMAIN beta_gamma |->
        FMul(FMul(FDiv(K.S_COEFF, FInt(2)), FDiv(FOne, FSqrt(g_T_per_m))),
             FPowNegHalf(beta_gamma[i]))]

\* plot_alpha_compression_1343: the grid of beta-gamma and, per current, the
\* ds_dQ = X_COEFF / sqrt(g) / sqrt(bg) that panel (A) plots and that panels
\* (B) and (C) recompute by the same expression for dt/dE
plot_alpha_compression_1343(K, currents_A, E_min_MeV, E_max_MeV, nE) ==
    LET E_grid == np_linspace(E_min_MeV, E_max_MeV, nE)
        bg0    == beta_gamma_from_E_MeV(E_grid)
        bg     == [j \in DOMAIN bg0 |-> FMaximum(bg0[j], FDec(1, -12))]
    IN [status |-> "ok", E_grid |-> E_grid, bg |-> bg,
        ds_dQ |-> [i \in DOMAIN currents_A |->
                     LET g == g_from_current(currents_A[i])
                     IN [j \in DOMAIN bg |->
                            FDiv(FDiv(K.X_COEFF, FSqrt(g)), FSqrt(bg[j]))]]]

\* beta-gamma values, field gradients (T/m) and magnet currents (A) tried
AlphaBetaGammas == {FZero, FDec(5, -1), FInt(1), FDec(32, -1), FInt(12)}

AlphaGradients == {FZero, FDec(-18, -1), FDec(104, -2), FDec(18, -1), FDec(207, -2)}

AlphaCurrents == {FInt(10), FInt(15), FDec(175, -1), FInt(20)}

\* the ratios k by which beta_gamma / g is scaled
ScaleFactors == {FInt(2), FInt(3), FInt(4), FDec(25, -2)}

Call_s_alpha_from_bg_g(beta_gamma, g_T_per_m) ==
    /\ call' = [op |-> "s_alpha_from_bg_g", beta_gamma |-> beta_gamma,
                g_T_per_m |-> g_T_per_m,
                result |-> s_alpha_from_bg_g(FK, beta_gamma, g_T_per_m)]
    /\ KinFrame

Call_x_max_from_bg_g(beta_gamma, g_T_per_m) ==
    /\ call' = [op |-> "x_max_from_bg_g", beta_gamma |-> beta_gamma,
                g_T_per_m |-> g_T_per_m,
                result |-> x_max_from_bg_g(FK, beta_gamma, g_T_per_m)]
    /\ KinFrame

Call_dsalpha_dQp0(beta_gamma, g_T_per_m) ==
    /\ call' = [op |-> "dsalpha_dQp0", beta_gamma |-> beta_gamma,
                g_T_per_m |-> g_T_per_m,
                result |-> [status |-> "ok",
                            value |-> dsalpha_dQp0(FK, beta_gamma, g_T_per_m)]]
    /\ KinFrame

Call_plot_alpha_compression_1343(currents_A, E_min_MeV, E_max_MeV, nE) ==
    /\ call' = [op |-> "plot_alpha_compression_1343", currents_A |-> currents_A,
                E_min_MeV |-> E_min_MeV, E_max_MeV |-> E_max_MeV, nE |-> nE,
                result |-> plot_alpha_compression_1343(FK, currents_A, E_min_MeV,
                                                       E_max_MeV, nE)]
    /\ KinFrame

\* n of cubic_bezier: the points of a segment
BezierPoints == 200

\* cos and sin of theta = np.deg2rad(THETA_ALPHA_DEG), 40.70991 degrees
cos_theta == FDec(7580215, -7)

sin_theta == FDec(6522295, -7)

\* the weights of the four control points at t, u being 1 - t
Bernstein(u, t) ==
    <<FCube(u), FMul(FMul(FInt(3), FSquare(u)), t), FMul(FMul(FInt(3), u), FSquare(t)), FCube(t)>>

\* one coordinate of the weighted sum, added left to right
BezierCoord(w, p0, p1, p2, p3) ==
    FAdd(FAdd(FAdd(FMul(w[1], p0), FMul(w[2], p1)), FMul(w[3], p2)), FMul(w[4], p3))

BezierPoint(w, P0, P1, P2, P3) ==
    <<BezierCoord(w, P0[1], P1[1], P2[1], P3[1]), BezierCoord(w, P0[2], P1[2], P2[2], P3[2])>>

\* the curve on the parameter values t
bezier_on(t, P0, P1, P2, P3) ==
    [i \in DOMAIN t |-> BezierPoint(Bernstein(FSub(FOne, t[i]), t[i]), P0, P1, P2, P3)]

\* cubic_bezier(P0, P1, P2, P3, n)
cubic_bezier(P0, P1, P2, P3, n) == bezier_on(np_linspace(FZero, FOne, n), P0, P1, P2, P3)

\* P + D and P - D on pairs
PairAdd(P, D) == <<FAdd(P[1], D[1]), FAdd(P[2], D[2])>>

PairSub(P, D) == <<FSub(P[1], D[1]), FSub(P[2], D[2])>>

\* Lctrl * np.array([np.cos(theta), sgn * np.sin(theta)])
Tangent(Lctrl, sgn) ==
    <<FMul(Lctrl, cos_theta), FMul(Lctrl, IF sgn > 0 THEN sin_theta ELSE FNeg(sin_theta))>>

\* np.vstack of the segment from the origin O out to the apex P, leaving
\* along Dout, and the segment back, arriving along Dback
rosette_branch(O, P, Dout, Dback, n) ==
    cubic_bezier(O, PairAdd(O, Dout), PairSub(P, Dout), P, n)
        \o cubic_bezier(P, PairSub(P, Dback), PairAdd(O, Dback), O, n)

\* the branches with the lower one given the tangents of the upper one
alpha_rosette_branches_skewed(xmax_m, ymax_m, Lctrl) ==
    [upper |-> rosette_branch(<<FZero, FZero>>, <<xmax_m, ymax_m>>,
                              Tangent(Lctrl, 1), Tangent(Lctrl, -1), BezierPoints),
     lower |-> rosette_branch(<<FZero, FZero>>, <<xmax_m, FNeg(ymax_m)>>,
                              Tangent(Lctrl, 1), Tangent(Lctrl, -1), BezierPoints)]

\* alpha_rosette_branches(xmax_m, ymax_m, Lctrl) with Lctrl given
alpha_rosette_branches(xmax_m, ymax_m, Lctrl) ==
    [upper |-> rosette_branch(<<FZero, FZero>>, <<xmax_m, ymax_m>>,
                              Tangent(Lctrl, 1), Tangent(Lctrl, -1), BezierPoints),
     lower |-> rosette_branch(<<FZero, FZero>>, <<xmax_m, FNeg(ymax_m)>>,
                              Tangent(Lctrl, -1), Tangent(Lctrl, 1), BezierPoints)]

\* Lctrl = None stands for 0.5 * xmax_m
DefaultLctrl(xmax_m, Lctrl) == IF Lctrl.k = "none" THEN FMul(FDec(5, -1), xmax_m) ELSE Lctrl

\* apex coordinates and control lengths tried
RosetteExtents == {FZero, FDec(3, -2), FDec(15, -2)}

RosetteLctrls == {[k |-> "none"], FDec(2, -2), FInt(-3)}

Call_alpha_rosette_branches(xmax_m, ymax_m, Lctrl) ==
    /\ call' = [op |-> "alpha_rosette_branches", xmax_m |-> xmax_m, ymax_m |-> ymax_m,
                Lctrl |-> Lctrl,
                result |-> alpha_rosette_branches(xmax_m, ymax_m, DefaultLctrl(xmax_m, Lctrl))]
    /\ KinFrame

NextAlpha ==
    /\ call = NoCall
    /\ \/ \E bg \in Sweeps(AlphaBetaGammas) \ {<<>>}, g \in AlphaGradients :
             Call_s_alpha_from_bg_g(bg, g)
       \/ \E bg \in Sweeps(AlphaBetaGammas) \ {<<>>}, g \in AlphaGradients :
             Call_x_max_from_bg_g(bg, g)
       \/ \E bg \in Sweeps(AlphaBetaGammas) \ {<<>>}, g \in AlphaGradients :
             Call_dsalpha_dQp0(bg, g)
       \/ \E Is \in Sweeps(AlphaCurrents) \ {<<>>}, nE \in 2..(MaxSweepLen + 1) :
             \E lo \in {FDec(5, -2), FDec(6, -1)}, hi \in {FInt(1), FDec(12, -1)} :
                Call_plot_alpha_compression_1343(Is, lo, hi, nE)
       \/ \E xmax \in RosetteExtents, ymax \in RosetteExtents, Lctrl \in RosetteLctrls :
             Call_alpha_rosette_branches(xmax, ymax, Lctrl)

SpecAlpha == InitKin /\ [][NextAlpha]_vars

\* |x - y| <= |y| / 8 for finite x and y
FClose(x, y) ==
    /\ x.k = "fin" /\ y.k = "fin"
    /\ LET d  == FSub(x, y)
           ad == IF d.s < 0 THEN FNeg(d) ELSE d
           ay == IF y.s < 0 THEN FNeg(y) ELSE y
       IN FLessEq(ad, FDiv(ay, FInt(8)))

(***************************************************************************)
(* C18.  s_alpha_from_bg_g and x_max_from_bg_g fail with a domain error    *)
(* for every field gradient g <= 0, zero and negative alike, and return no *)
(* value then.                                                             *)
(***************************************************************************)
C18_NonPositiveGradientFails ==
    (call.op \in {"s_alpha_from_bg_g", "x_max_from_bg_g"} /\ FLessEq(call.g_T_per_m, FZero))
    => call.result.status # "ok"

(***************************************************************************)
(* C19.  For beta-gamma > 0, g > 0 and k > 0, scaling beta-gamma / g by k  *)
(* scales the path length and the maximum excursion by sqrt(k), and both   *)
(* are non-negative.  Stated to one part in eight, and exactly for k = 4,  *)
(* where binary rounding commutes with the scaling.                        *)
(***************************************************************************)
C19_SqrtScaling ==
    (/\ call.op \in {"s_alpha_from_bg_g", "x_max_from_bg_g"}
     /\ FPositive(call.g_T_per_m)
     /\ \A i \in DOMAIN call.beta_gamma : FPositive(call.beta_gamma[i]))
    => \A i \in DOMAIN call.beta_gamma, k \in ScaleFactors :
          LET f(bg, g) == IF call.op = "s_alpha_from_bg_g"
                          THEN s_alpha_from_bg_g(FK, <<bg>>, g).value[1]
                          ELSE x_max_from_bg_g(FK, <<bg>>, g).value[1]
              base     == call.result.value[i]
              viaBg    == f(FMul(k, call.beta_gamma[i]), call.g_T_per_m)
              viaG     == f(call.beta_gamma[i], FDiv(call.g_T_per_m, k))
              want     == FMul(FSqrt(k), base)
          IN /\ FNonNegFinite(base) /\ ~FIsZero(base)
             /\ FClose(viaBg, want) /\ FClose(viaG, want)
             /\ k = FInt(4) => (viaBg = want /\ viaG = want)

\* a path length was computed for two positive beta-gamma values at g > 0
C19_Witness ==
    /\ call.op = "s_alpha_from_bg_g"
    /\ FPositive(call.g_T_per_m)
    /\ Len(call.beta_gamma) = 2
    /\ call.beta_gamma[1] # call.beta_gamma[2]
    /\ \A i \in DOMAIN call.beta_gamma : FPositive(call.beta_gamma[i])

(***************************************************************************)
(* C20.  The ds/d(beta gamma) term that plot_alpha_compression_1343 uses   *)
(* is the path-length derivative: at every grid point and magnet current   *)
(* it equals dsalpha_dQp0(beta gamma, g), here to one part in eight.       *)
(***************************************************************************)
C20_TermIsPathLengthDerivative ==
    call.op = "plot_alpha_compression_1343"
    => \A i \in DOMAIN call.currents_A :
          LET g == g_from_current(call.currents_A[i])
              d == dsalpha_dQp0(FK, call.result.bg, g)
          IN \A j \in DOMAIN call.result.bg : FClose(call.result.ds_dQ[i][j], d[j])

(***************************************************************************)
(* Exact decimal literals: naturals as little-endian sequences of limbs in *)
(* base 10000, a literal being m * 10^e.  A product of two limbs and the   *)
(* column sums of the literals used here stay below 2^31.                  *)
(***************************************************************************)
RECURSIVE BigTrim(_)
BigTrim(a) ==
    IF a = <<>> THEN a
    ELSE IF a[Len(a)] = 0 THEN BigTrim(SubSeq(a, 1, Len(a) - 1)) ELSE a

\* the sum of a[i] * b[k - i + 1] over the i from i0 on
RECURSIVE ColSum(_, _, _, _)
ColSum(a, b, k, i0) ==
    IF i0 > Len(a) THEN 0
    ELSE (IF k - i0 + 1 \in DOMAIN b THEN a[i0] * b[k - i0 + 1] ELSE 0) + ColSum(a, b, k, i0 + 1)

RECURSIVE BigCarry(_, _, _)
BigCarry(c, i, carry) ==
    IF i > Len(c)
    THEN (IF carry = 0 THEN <<>> ELSE <<carry % 10000>> \o BigCarry(c, i, carry \div 10000))
    ELSE <<(c[i] + carry) % 10000>> \o BigCarry(c, i + 1, (c[i] + carry) \div 10000)

BigMul(a, b) ==
    IF a = <<>> \/ b = <<>> THEN <<>>
    ELSE BigTrim(BigCarry([k \in 1..(Len(a) + Len(b) - 1) |-> ColSum(a, b, k, 1)], 1, 0))

RECURSIVE BigLEFrom(_, _, _)
BigLEFrom(a, b, i) ==
    IF i = 0 THEN TRUE
    ELSE IF a[i] # b[i] THEN a[i] < b[i] ELSE BigLEFrom(a, b, i - 1)

BigLE(a, b) == IF Len(a) # Len(b) THEN Len(a) < Len(b) ELSE BigLEFrom(a, b, Len(a))

LimbAt(a, i) == IF i \in DOMAIN a THEN a[i] ELSE 0

\* a - b for a >= b, limb by limb from i on
RECURSIVE BigSubFrom(_, _, _, _)
BigSubFrom(a, b, i, borrow) ==
    IF i > Len(a) THEN <<>>
    ELSE <<(a[i] - LimbAt(b, i) - borrow + 10000) % 10000>>
         \o BigSubFrom(a, b, i + 1, IF a[i] - LimbAt(b, i) - borrow < 0 THEN 1 ELSE 0)

\* |a - b|
BigDist(a, b) ==
    IF BigLE(a, b) THEN BigTrim(BigSubFrom(b, a, 1, 0)) ELSE BigTrim(BigSubFrom(a, b, 1, 0))

\* a * 10^k for k >= 0
RECURSIVE BigPow10(_, _)
BigPow10(a, k) ==
    IF k = 0 \/ a = <<>> THEN a
    ELSE IF k >= 4 THEN <<0>> \o BigPow10(a, k - 4)
    ELSE BigPow10(BigMul(a, <<10>>), k - 1)

DecMul(x, y) == [m |-> BigMul(x.m, y.m), e |-> x.e + y.e]

\* the significand of x at the exponent e <= x.e
DecAt(x, e) == BigPow10(x.m, x.e - e)

Min(a, b) == IF a < b THEN a ELSE b

\* |x - y| <= y * 10^-d
DecWithin(x, y, d) ==
    BigLE(BigPow10(BigDist(DecAt(x, Min(x.e, y.e)), DecAt(y, Min(x.e, y.e))), d),
          DecAt(y, Min(x.e, y.e)))

\* whether the limbs below the top two are all zero
RECURSIVE LowLimbsZero(_, _)
LowLimbsZero(a, i) == i < 1 \/ (a[i] = 0 /\ LowLimbsZero(a, i - 1))

\* the float of a scaled significand r = Scale5(...) at the decimal exponent k
FRoundScaled(s, r, k) == FRound(s, r.n, r.e + k, ~r.exact)

\* the float a decimal literal denotes: the top two limbs, the rest sticky
DecToF(x) ==
    IF x.m = <<>> THEN FZero
    ELSE IF Len(x.m) = 1 THEN FDec(x.m[1], x.e)
    ELSE FRoundScaled(1,
             Scale5(Norm21(x.m[Len(x.m)] * 10000 + x.m[Len(x.m) - 1], 0,
                           LowLimbsZero(x.m, Len(x.m) - 2)),
                    x.e + 4 * (Len(x.m) - 2)),
             x.e + 4 * (Len(x.m) - 2))

(***************************************************************************)
(* PhysicalConstants (backend/physicalConstants.py)                        *)
(***************************************************************************)
\* the decimal literals of the class attributes, lines 55-80
PhysicalLiterals ==
    [Q           |-> [m |-> <<6634, 217, 16>>, e |-> -28],
     C           |-> [m |-> <<2458, 9979, 2>>, e |-> 0],
     M_e         |-> [m |-> <<7015, 9383, 910>>, e |-> -41],
     M_p         |-> [m |-> <<2369, 6219, 1672>>, e |-> -38],
     M_AMU       |-> [m |-> <<666, 539, 166>>, e |-> -37],
     E0_electron |-> [m |-> <<9895, 5109>>, e |-> -8],
     E0_proton   |-> [m |-> <<8816, 2720, 938>>, e |-> -8],
     MeV_to_J    |-> [m |-> <<6634, 217, 16>>, e |-> -22]]

\* the class: each attribute the float of its literal, and
\* J_to_MeV = 1.0 / MeV_to_J
PhysicalConstants ==
    [Q           |-> DecToF(PhysicalLiterals.Q),
     C           |-> DecToF(PhysicalLiterals.C),
     M_e         |-> DecToF(PhysicalLiterals.M_e),
     M_p         |-> DecToF(PhysicalLiterals.M_p),
     M_AMU       |-> DecToF(PhysicalLiterals.M_AMU),
     E0_electron |-> DecToF(PhysicalLiterals.E0_electron),
     E0_proton   |-> DecToF(PhysicalLiterals.E0_proton),
     MeV_to_J    |-> DecToF(PhysicalLiterals.MeV_to_J),
     J_to_MeV    |-> FDiv(FOne, DecToF(PhysicalLiterals.MeV_to_J))]

\* the keys of the dictionary get_particle_properties returns
ParticleNames == {"electron", "proton"}

\* the attributes the record of a predefined particle is built from
ParticleFields(cls, name) ==
    IF name = "electron"
    THEN [mass |-> cls.M_e, charge |-> cls.Q, rest_energy |-> cls.E0_electron]
    ELSE [mass |-> cls.M_p, charge |-> cls.Q, rest_energy |-> cls.E0_proton]

\* a lookup that hands out the first records still held by a caller, as a
\* table kept between calls would
get_particle_properties_shared(cls, heap) ==
    [name \in ParticleNames |->
        IF Len(heap) >= 2 THEN (IF name = "electron" THEN heap[1] ELSE heap[2])
        ELSE ParticleFields(cls, name)]

\* PhysicalConstants.get_particle_properties: both dictionaries are built
\* anew from the class attributes at every call; heap, the records callers
\* hold, is not read
get_particle_properties(cls, heap) == [name \in ParticleNames |-> ParticleFields(cls, name)]

\* PhysicalConstants.get_particle
get_particle(cls, heap, particle_name) ==
    IF particle_name \notin DOMAIN get_particle_properties(cls, heap)
    THEN [status |-> "KeyError", message |-> [name |-> particle_name]]
    ELSE [status |-> "ok", value |-> get_particle_properties(cls, heap)[particle_name]]

\* C ** 2 = 89875517873681764, an int, as the float it multiplies as
C_squared == FDec(898755179, 8)

\* the rest energy left in joules
compute_rest_energy_joules(cls, mass_kg) == FMul(mass_kg, C_squared)

\* PhysicalConstants.compute_rest_energy
compute_rest_energy(cls, mass_kg) == FMul(FMul(mass_kg, C_squared), cls.J_to_MeV)

\* the record of lines 296-300 for a mass
isotope_record(cls, mass_kg, charge_C) ==
    [mass |-> mass_kg, charge |-> charge_C, rest_energy |-> compute_rest_energy(cls, mass_kg)]

\* PhysicalConstants.compute_isotope_properties
compute_isotope_properties(cls, mass_number, ion_charge) ==
    isotope_record(cls, FMul(FInt(mass_number), cls.M_AMU), FMul(FInt(ion_charge), cls.Q))

\* a string as the sequence of its characters
NameChars(name) ==
    IF name = "electron" THEN <<"e", "l", "e", "c", "t", "r", "o", "n">>
    ELSE IF name = "proton" THEN <<"p", "r", "o", "t", "o", "n">>
    ELSE <<"m", "u", "o", "n">>

\* str.split(","): the pieces between the commas, from position i on
RECURSIVE split_comma(_, _, _)
split_comma(str, i, piece) ==
    IF i > Len(str) THEN <<piece>>
    ELSE IF str[i] = "," THEN <<piece>> \o split_comma(str, i + 1, <<>>)
    ELSE split_comma(str, i + 1, Append(piece, str[i]))

\* str.strip() for the blank
RECURSIVE strip(_)
strip(str) ==
    IF str = <<>> THEN str
    ELSE IF Head(str) = " " THEN strip(Tail(str))
    ELSE IF str[Len(str)] = " " THEN strip(SubSeq(str, 1, Len(str) - 1))
    ELSE str

DigitChars == {"0", "1", "2"}

DigitValue(ch) == IF ch = "0" THEN 0 ELSE IF ch = "1" THEN 1 ELSE 2

\* digits with single underscores between them, as int() accepts them
IsDigitGroup(str) ==
    /\ str # <<>>
    /\ \A i \in DOMAIN str : str[i] \in DigitChars \cup {"_"}
    /\ str[1] # "_" /\ str[Len(str)] # "_"
    /\ \A i \in 1..(Len(str) - 1) : ~(str[i] = "_" /\ str[i + 1] = "_")

\* the value of the digits of str, underscores skipped, acc being the value so far
RECURSIVE DigitsValue(_, _)
DigitsValue(str, acc) ==
    IF str = <<>> THEN acc
    ELSE IF Head(str) = "_" THEN DigitsValue(Tail(str), acc)
    ELSE DigitsValue(Tail(str), 10 * acc + DigitValue(Head(str)))

\* int(str) of a str without surrounding blanks
PyInt(str) ==
    IF str # <<>> /\ Head(str) \in {"+", "-"}
    THEN IF IsDigitGroup(Tail(str))
         THEN [ok |-> TRUE,
               value |-> IF Head(str) = "-" THEN 0 - DigitsValue(Tail(str), 0)
                         ELSE DigitsValue(Tail(str), 0)]
         ELSE [ok |-> FALSE]
    ELSE IF IsDigitGroup(str) THEN [ok |-> TRUE, value |-> DigitsValue(str, 0)]
    ELSE [ok |-> FALSE]

\* the ValueError of lines 353-359: its message quotes particle_spec and the
\* error caught
SpecError(particle_spec, why) ==
    [status |-> "ValueError", message |-> [particle_spec |-> particle_spec, error |-> why]]

\* lines 346-351 without the test of ion_charge
isotope_from_ints_unchecked(cls, particle_spec, A, Z) ==
    IF ~A.ok \/ ~Z.ok THEN SpecError(particle_spec, "int")
    ELSE IF A.value <= 0 THEN SpecError(particle_spec, "mass_number")
    ELSE [status |-> "ok", value |-> compute_isotope_properties(cls, A.value, Z.value)]

\* lines 343-351: A and Z are what int() made of the two pieces
isotope_from_ints(cls, particle_spec, A, Z) ==
    IF ~A.ok \/ ~Z.ok THEN SpecError(particle_spec, "int")
    ELSE IF A.value <= 0 THEN SpecError(particle_spec, "mass_number")
    ELSE IF Z.value <= 0 THEN SpecError(particle_spec, "ion_charge")
    ELSE [status |-> "ok", value |-> compute_isotope_properties(cls, A.value, Z.value)]

\* lines 338-351 on the pieces of the split
isotope_from_parts(cls, particle_spec, parts) ==
    IF Len(parts) # 2 THEN SpecError(particle_spec, "format")
    ELSE isotope_from_ints(cls, particle_spec, PyInt(strip(parts[1])), PyInt(strip(parts[2])))

\* PhysicalConstants.parse_particle_specification on a str
parse_particle_specification(cls, heap, particle_spec) ==
    IF \E name \in DOMAIN get_particle_properties(cls, heap) : NameChars(name) = particle_spec
    THEN [status |-> "ok",
          value |-> get_particle_properties(cls, heap)[
                        CHOOSE name \in DOMAIN get_particle_properties(cls, heap) :
                            NameChars(name) = particle_spec]]
    ELSE isotope_from_parts(cls, particle_spec, split_comma(particle_spec, 1, <<>>))

\* the characters specifications are made of
SpecAlphabet == DigitChars \cup {"-", "+", " ", "_", ","}

\* every specification of at most MaxSpecLen characters, and the names
SpecStrings ==
    UNION {[1..n -> SpecAlphabet] : n \in 0..MaxSpecLen}
        \cup {NameChars(name) : name \in ParticleNames \cup {"muon"}}

\* the specifications tried after the first call
FewSpecStrings == {NameChars("proton"), <<"1", "2", ",", "2">>, <<"0", ",", "1">>}

\* mass numbers and charge states tried
IsotopeInts == {-1, 0, 1, 2, 5, 12}

\* callers keep the records rs of predefined particles they are handed, while
\* they hold no more than MaxHeld
Keep(heap, rs) == IF Len(heap) + Len(rs) <= MaxHeld THEN heap \o rs ELSE heap

\* the module imports nothing optional
InitParticles == InitKin /\ scipy_ok

ParticleFrame == UNCHANGED <<materials, sp_converted, scipy_ok, constructed, lastOp, threads, bodyLog, ui>>

Call_get_particle_properties ==
    /\ call' = [op |-> "get_particle_properties",
                result |-> [status |-> "ok", value |-> get_particle_properties(PhysicalConstants, held)]]
    /\ held' = Keep(held, <<get_particle_properties(PhysicalConstants, held)["electron"],
                            get_particle_properties(PhysicalConstants, held)["proton"]>>)
    /\ ParticleFrame

\* get_particle(name); get_electron() and get_proton() are get_particle of
\* their names
Call_get_particle(op, particle_name) ==
    /\ call' = [op |-> op, particle_name |-> particle_name,
                result |-> get_particle(PhysicalConstants, held, particle_name)]
    /\ held' = IF call'.result.status = "ok" THEN Keep(held, <<call'.result.value>>) ELSE held
    /\ ParticleFrame

Call_compute_isotope_properties(mass_number, ion_charge) ==
    /\ call' = [op |-> "compute_isotope_properties", mass_number |-> mass_number,
                ion_charge |-> ion_charge,
                result |-> [status |-> "ok",
                            value |-> compute_isotope_properties(PhysicalConstants,
                                                                 mass_number, ion_charge)]]
    /\ held' = held
    /\ ParticleFrame

Call_parse_particle_specification(particle_spec) ==
    /\ call' = [op |-> "parse_particle_specification", particle_spec |-> particle_spec,
                result |-> parse_particle_specification(PhysicalConstants, held, particle_spec)]
    /\ held' = IF \E name \in ParticleNames : NameChars(name) = particle_spec
               THEN Keep(held, <<call'.result.value>>) ELSE held
    /\ ParticleFrame

\* a caller assigns to a field of a record it holds
MutateRecord(i, field, v) ==
    /\ i \in DOMAIN held
    /\ held[i][field] # v
    /\ held' = [held EXCEPT ![i][field] = v]
    /\ call' = [op |-> "mutate"]
    /\ ParticleFrame

NextParticles ==
    \/ Call_get_particle_properties
    \/ \E name \in ParticleNames \cup {"muon"} : Call_get_particle("get_particle", name)
    \/ Call_get_particle("get_electron", "electron")
    \/ Call_get_particle("get_proton", "proton")
    \/ \E A \in IsotopeInts, Z \in IsotopeInts :
          call = NoCall /\ Call_compute_isotope_properties(A, Z)
    \/ \E str \in (IF call = NoCall THEN SpecStrings ELSE FewSpecStrings) :
          Call_parse_particle_specification(str)
    \/ \E i \in 1..MaxHeld, field \in {"mass", "charge", "rest_energy"} :
          MutateRecord(i, field, FZero)

SpecParticles == InitParticles /\ [][NextParticles]_vars

\* the names of the predefined particles a returned value holds the record of
RecordsOf(c) ==
    IF c.op = "get_particle_properties" THEN {<<n, c.result.value[n]>> : n \in ParticleNames}
    ELSE IF c.op \in {"get_particle", "get_electron", "get_proton"} /\ c.result.status = "ok"
    THEN {<<c.particle_name, c.result.value>>}
    ELSE IF c.op = "parse_particle_specification" /\ c.result.status = "ok"
            /\ \E n \in ParticleNames : NameChars(n) = c.particle_spec
    THEN {<<CHOOSE n \in ParticleNames : NameChars(n) = c.particle_spec, c.result.value>>}
    ELSE {}

\* the records computed for an isotope that a returned value holds
IsotopeRecordsOf(c) ==
    IF c.op = "compute_isotope_properties" THEN {c.result.value}
    ELSE IF c.op = "parse_particle_specification" /\ c.result.status = "ok"
            /\ ~\E n \in ParticleNames : NameChars(n) = c.particle_spec
    THEN {c.result.value}
    ELSE {}

\* mass * c^2 = rest_energy * MeV_to_J to nine digits, on the literals
RestEnergyExact(lit) ==
    DecWithin(DecMul(lit.mass, DecMul(PhysicalLiterals.C, PhysicalLiterals.C)),
              DecMul(lit.rest_energy, PhysicalLiterals.MeV_to_J), 9)

\* the check of lines 424-432 on the literals of both predefined particles
PredefinedRestEnergiesExact ==
    \A name \in ParticleNames : RestEnergyExact(ParticleFields(PhysicalLiterals, name))

\* x = y to one part in eight, zero and signs included
FNear(x, y) == IF FIsZero(y) THEN FIsZero(x) ELSE FClose(x, y)

\* rest_energy = mass * c^2 / MeV_to_J on the floats of a record
RestEnergyFloat(r) ==
    FNear(r.rest_energy, FDiv(FMul(r.mass, C_squared), PhysicalConstants.MeV_to_J))

(***************************************************************************)
(* C21.  Every particle record returned has rest_energy = mass * c^2 in    *)
(* MeV: the electron and proton records, to nine digits on the literals    *)
(* they are built from and on the floats returned, and every record of     *)
(* compute_isotope_properties, on its floats.                              *)
(***************************************************************************)
C21_RestEnergyIsMassTimesC2 ==
    /\ PredefinedRestEnergiesExact
    /\ \A nr \in RecordsOf(call) :
          /\ nr[2] = ParticleFields(PhysicalConstants, nr[1])
          /\ RestEnergyFloat(nr[2])
    /\ \A r \in IsotopeRecordsOf(call) : RestEnergyFloat(r)

\* the proton record, then a carbon record, have been returned
C21_Witness ==
    /\ call.op = "parse_particle_specification"
    /\ call.particle_spec = <<"1", "2", ",", "2">>
    /\ call.result.status = "ok"
    /\ FPositive(call.result.value.rest_energy)
    /\ Len(held) = 1
    /\ held[1] = get_particle_properties(PhysicalConstants, <<>>)["proton"]

(***************************************************************************)
(* C22.  Every operation that takes a material name rejects a name that is *)
(* not in the materials table before computing any row, with an error      *)
(* whose message identifies the offending field (the material parameter).  *)
(***************************************************************************)
C22_UnknownMaterialNamesField ==
    /\ (call.op \in {"model_Grunn", "model_Bethe"} /\ call.material \notin DOMAIN materials)
          => /\ call.status # "ok"
             /\ call.rows = <<>>
             /\ "material" \in call.error.fields
    /\ (call.op = "compute_deposition_profile" /\ call.material \notin DOMAIN materials)
          => /\ call.result.status # "ok"
             /\ scipy_ok => "material" \in call.result.message.fields

(***************************************************************************)
(* C26.  A BeamPower construction attempt with a beam_type that is not a   *)
(* known particle raises ValueError and leaves the shared stopping-power   *)
(* table and the conversion flag as they were before the attempt, the      *)
(* first attempt in the process included.                                  *)
(***************************************************************************)
C26_FailedConstructionLeavesTable ==
    [][(constructed' # constructed /\ lastOp'.op = "BeamPower"
          /\ lastOp'.args[1] \notin PARTICLES)
          => /\ lastOp'.status = "ValueError"
             /\ materials' = materials
             /\ sp_converted' = sp_converted]_vars

\* 0 <= x <= y
FBetween(x, y) == FLessEq(FZero, x) /\ FLessEq(x, y)

DigitsWithValue == {<<"0", 0>>, <<"1", 1>>, <<"2", 2>>}

\* the texts of at most n characters made of digits with single underscores
\* between them, each with the number it writes
RECURSIVE DigitGroups(_)
DigitGroups(n) ==
    IF n <= 0 THEN {}
    ELSE {[text |-> <<d[1]>>, value |-> d[2]] : d \in DigitsWithValue}
         \cup {[text |-> Append(g.text, d[1]), value |-> 10 * g.value + d[2]] :
                  g \in DigitGroups(n - 1), d \in DigitsWithValue}
         \cup {[text |-> g.text \o <<"_", d[1]>>, value |-> 10 * g.value + d[2]] :
                  g \in DigitGroups(n - 2), d \in DigitsWithValue}

Blanks(n) == [i \in 1..n |-> " "]

\* the texts of at most n characters that write an integer: blanks, an
\* optional sign, a digit group, blanks
IntTexts(n) ==
    {t \in {[text  |-> Blanks(l) \o sg \o g.text \o Blanks(r),
             value |-> IF sg = <<"-">> THEN 0 - g.value ELSE g.value] :
               l \in 0..n, r \in 0..n, sg \in {<<>>, <<"+">>, <<"-">>}, g \in DigitGroups(n)} :
        Len(t.text) <= n}

\* the specifications 'A,Z' of at most MaxSpecLen characters, with A and Z
IsotopeTexts ==
    {t \in {[text |-> a.text \o <<",">> \o b.text, A |-> a.value, Z |-> b.value] :
               a \in IntTexts(MaxSpecLen - 2), b \in IntTexts(MaxSpecLen - 2)} :
        Len(t.text) <= MaxSpecLen}

\* those with A > 0 and Z > 0, by their text
PositiveIsotopeTexts == {t.text : t \in {u \in IsotopeTexts : u.A > 0 /\ u.Z > 0}}

\* the outcome parse_particle_specification is to have on a specification
ExpectedOutcome(particle_spec) ==
    IF \E n \in ParticleNames : NameChars(n) = particle_spec
    THEN [status |-> "ok",
          value  |-> ParticleFields(PhysicalConstants,
                                    CHOOSE n \in ParticleNames : NameChars(n) = particle_spec)]
    ELSE IF particle_spec \in PositiveIsotopeTexts
    THEN [status |-> "ok",
          value  |-> compute_isotope_properties(
                         PhysicalConstants,
                         (CHOOSE t \in IsotopeTexts : t.text = particle_spec).A,
                         (CHOOSE t \in IsotopeTexts : t.text = particle_spec).Z)]
    ELSE [status |-> "ValueError"]

C24_LookupsReturnOriginals ==
    \A nr \in RecordsOf(call) :
       /\ nr[2].mass = (IF nr[1] = "electron" THEN PhysicalConstants.M_e
                        ELSE PhysicalConstants.M_p)
       /\ nr[2].charge = PhysicalConstants.Q
       /\ nr[2].rest_energy = (IF nr[1] = "electron" THEN PhysicalConstants.E0_electron
                               ELSE PhysicalConstants.E0_proton)

\* the electron is looked up after a caller zeroed the mass and the charge
\* of the electron record it holds
C24_Witness ==
    /\ call.op \in {"get_particle", "get_electron", "parse_particle_specification"}
    /\ RecordsOf(call) # {}
    /\ \E i \in DOMAIN held :
          /\ held[i].rest_energy = PhysicalConstants.E0_electron
          /\ held[i].mass = FZero
          /\ held[i].charge = FZero
    /\ Len(held) = MaxHeld

(***************************************************************************)
(* C25.  For every xmax, ymax >= 0 and control length the rosette          *)
(* construction returns two polylines, each closed at the origin (first    *)
(* and last point (0,0)), each through its apex, (xmax, +ymax) for the     *)
(* upper and (xmax, -ymax) for the lower branch, at the junction of its    *)
(* two segments, and mirror images: the i-th point of the lower branch is  *)
(* the i-th point of the upper branch with y negated.                      *)
(***************************************************************************)
C25_RosetteClosedAndMirrored ==
    call.op = "alpha_rosette_branches"
       => /\ Len(call.result.upper) = 2 * BezierPoints
          /\ Len(call.result.lower) = 2 * BezierPoints
          /\ \A b \in {call.result.upper, call.result.lower} :
                b[1] = <<FZero, FZero>> /\ b[Len(b)] = <<FZero, FZero>>
          /\ \A i \in {BezierPoints, BezierPoints + 1} :
                /\ call.result.upper[i] = <<call.xmax_m, call.ymax_m>>
                /\ call.result.lower[i] = <<call.xmax_m, FNeg(call.ymax_m)>>
          /\ \A i \in DOMAIN call.result.upper :
                /\ call.result.lower[i][1] = call.result.upper[i][1]
                /\ call.result.lower[i][2] = FNeg(call.result.upper[i][2])

\* a rosette with a positive apex and a control length of its own, its
\* branches apart midway along the first segment
C25_Witness ==
    /\ call.op = "alpha_rosette_branches"
    /\ call.xmax_m = FDec(15, -2)
    /\ call.ymax_m = FDec(3, -2)
    /\ call.Lctrl = FDec(2, -2)
    /\ FPositive(call.result.upper[BezierPoints \div 2][2])
    /\ call.result.lower[BezierPoints \div 2][2] # call.result.upper[BezierPoints \div 2][2]

(***************************************************************************)
(* ExcelElements (backend/excelElements.py).  A table is the sequence of   *)
(* the rows of self.df; a missing cell is NaN.                             *)
(***************************************************************************)
\* pd.notna / not np.isnan on a float cell
notna(x) == x.k # "nan"

\* a > b on floats: False when either is NaN
FGreater(a, b) == notna(a) /\ notna(b) /\ ~FLessEq(a, b)

\* float(cell) if pd.notna(cell) else 0.0, lines 85-90
CellOrZero(x) == IF notna(x) THEN x ELSE FZero

\* lines 99-101: the drift before the element of a row
GapDrift(row, prev_z_end) ==
    IF FGreater(row.z_start, prev_z_end)
    THEN <<[type |-> "driftLattice", length |-> FSub(row.z_start, prev_z_end)]>>
    ELSE <<>>

\* lines 104-117: the element of a row
RowElement(row) ==
    IF row.Element = "QPF"
    THEN <<[type |-> "qpfLattice", current |-> CellOrZero(row.Current),
            length |-> FSub(row.z_end, row.z_start)]>>
    ELSE IF row.Element = "QPD"
    THEN <<[type |-> "qpdLattice", current |-> CellOrZero(row.Current),
            length |-> FSub(row.z_end, row.z_start)]>>
    ELSE IF row.Element = "DPH"
    THEN <<[type |-> "dipole", length |-> CellOrZero(row.DipoleLength),
            angle |-> CellOrZero(row.DipoleAngle)]>>
    ELSE IF row.Element = "DPW"
    THEN <<[type |-> "dipole_wedge", length |-> CellOrZero(row.GapWedge),
            angle |-> CellOrZero(row.DipoleWedge),
            dipole_length |-> CellOrZero(row.DipoleLength),
            dipole_angle |-> CellOrZero(row.DipoleAngle),
            pole_gap |-> CellOrZero(row.PoleGap)]>>
    ELSE IF ~FIsZero(FSub(row.z_end, row.z_start)) /\ notna(row.z_start) /\ notna(row.z_end)
    THEN <<[type |-> "driftLattice", length |-> FSub(row.z_end, row.z_start)]>>
    ELSE <<>>

\* the loop of lines 79-120 from row i on
RECURSIVE create_beamline_loop(_, _, _, _)
create_beamline_loop(df, i, prev_z_end, beamline) ==
    IF i > Len(df) THEN beamline
    ELSE create_beamline_loop(df, i + 1,
             IF notna(df[i].z_end) THEN df[i].z_end ELSE prev_z_end,
             beamline \o GapDrift(df[i], prev_z_end) \o RowElement(df[i]))

\* the loop with prev_z_end set from every row, NaN included
RECURSIVE create_beamline_loop_nan(_, _, _, _)
create_beamline_loop_nan(df, i, prev_z_end, beamline) ==
    IF i > Len(df) THEN beamline
    ELSE create_beamline_loop_nan(df, i + 1, df[i].z_end,
             beamline \o GapDrift(df[i], prev_z_end) \o RowElement(df[i]))

\* create_beamline forgetting the last position at a row without z_end
create_beamline_nan(df) == create_beamline_loop_nan(df, 1, FZero, <<>>)

\* ExcelElements.create_beamline
create_beamline(df) == create_beamline_loop(df, 1, FZero, <<>>)

\* find_element_by_position from row i on
RECURSIVE find_element_loop(_, _, _)
find_element_loop(df, z, i) ==
    IF i > Len(df) THEN "None"
    ELSE IF notna(df[i].z_start) /\ notna(df[i].z_end) /\ notna(z)
            /\ FLessEq(df[i].z_start, z) /\ FLessEq(z, df[i].z_end)
    THEN df[i].Element
    ELSE find_element_loop(df, z, i + 1)

\* find_element_by_position with the end of an element excluded
RECURSIVE find_element_loop_open(_, _, _)
find_element_loop_open(df, z, i) ==
    IF i > Len(df) THEN "None"
    ELSE IF notna(df[i].z_start) /\ notna(df[i].z_end) /\ notna(z)
            /\ FLessEq(df[i].z_start, z) /\ FLessEq(z, df[i].z_end) /\ z # df[i].z_end
    THEN df[i].Element
    ELSE find_element_loop_open(df, z, i + 1)

find_element_by_position_open(df, z) == find_element_loop_open(df, z, 1)

\* ExcelElements.find_element_by_position
find_element_by_position(df, z) == find_element_loop(df, z, 1)

\* the positions tried: missing, before the origin, the origin, and beyond
TablePositions == {FNaN, FInt(-1), FZero, FDec(3, -1), FInt(1)}

\* a row with its position cells; the other cells as a quadrupole row or a
\* dipole row of the lattice files has them
TableRow(element, z_start, z_end) ==
    [Element |-> element, z_start |-> z_start, z_end |-> z_end,
     Current      |-> IF element \in {"QPF", "QPD"} THEN FDec(15, -1) ELSE FNaN,
     DipoleAngle  |-> IF element \in {"DPH", "DPW"} THEN FInt(15) ELSE FNaN,
     DipoleLength |-> IF element \in {"DPH", "DPW"} THEN FDec(2, -1) ELSE FNaN,
     DipoleWedge  |-> IF element = "DPW" THEN FInt(5) ELSE FNaN,
     GapWedge     |-> IF element = "DPW" THEN FDec(1, -2) ELSE FNaN,
     PoleGap      |-> IF element = "DPW" THEN FDec(2, -2) ELSE FNaN]

\* QPF rows at every pair of positions, undefined ("BPM") rows at the pairs
\* of missing, origin and 1, the other types at a few
TableRows ==
    {TableRow("QPF", a, b) : a \in TablePositions, b \in TablePositions}
        \cup {TableRow("BPM", a, b) : a \in {FNaN, FZero, FInt(1)}, b \in {FNaN, FZero, FInt(1)}}
        \cup {TableRow("QPD", FZero, FInt(1)), TableRow("QPD", FDec(3, -1), FInt(1)),
              TableRow("DPH", FZero, FDec(3, -1)), TableRow("DPH", FNaN, FNaN),
              TableRow("DPW", FDec(3, -1), FInt(1)), TableRow("DPW", FNaN, FNaN)}

Tables == UNION {[1..n -> TableRows] : n \in 0..MaxTableRows}

InitLattice == InitKin /\ scipy_ok

Call_create_beamline(df) ==
    /\ call' = [op |-> "create_beamline", df |-> df, result |-> create_beamline(df)]
    /\ KinFrame

Call_find_element_by_position(df, z) ==
    /\ call' = [op |-> "find_element_by_position", df |-> df, z |-> z,
                result |-> find_element_by_position(df, z)]
    /\ KinFrame

NextLattice ==
    /\ call = NoCall
    /\ \/ \E df \in Tables : Call_create_beamline(df)
       \/ \E df \in Tables, z \in TablePositions : Call_find_element_by_position(df, z)

SpecLattice == InitLattice /\ [][NextLattice]_vars

\* the rows before row i that have a z_end
RowsWithEndBefore(df, i) == {j \in 1..(i - 1) : notna(df[j].z_end)}

\* the z_end of the most recent row before row i that has one, initially 0
PrevZEnd(df, i) ==
    IF RowsWithEndBefore(df, i) = {} THEN FZero
    ELSE df[CHOOSE j \in RowsWithEndBefore(df, i) :
               \A k \in RowsWithEndBefore(df, i) : k <= j].z_end

\* the drift due before the element of row i
DriftDue(df, i) ==
    IF FGreater(df[i].z_start, PrevZEnd(df, i))
    THEN <<[type |-> "driftLattice", length |-> FSub(df[i].z_start, PrevZEnd(df, i))]>>
    ELSE <<>>

\* what rows 1..i are to emit, in table order
RECURSIVE EmittedUpTo(_, _)
EmittedUpTo(df, i) ==
    IF i = 0 THEN <<>>
    ELSE EmittedUpTo(df, i - 1) \o DriftDue(df, i) \o RowElement(df[i])

\* a row of undefined type with zero or NaN extent
EmptyUndefined(row) ==
    /\ row.Element \notin {"QPF", "QPD", "DPH", "DPW"}
    /\ ~notna(row.z_start) \/ ~notna(row.z_end) \/ row.z_end = row.z_start

\* the sum of the lengths of the elements 1..i of a beamline
RECURSIVE SumLengths(_, _)
SumLengths(beamline, i) ==
    IF i = 0 THEN FZero ELSE FAdd(SumLengths(beamline, i - 1), beamline[i].length)

\* only QPF, QPD and undefined rows, positions present, increasing, not
\* overlapping
IncreasingTable(df) ==
    /\ df # <<>>
    /\ \A i \in DOMAIN df :
          /\ df[i].Element \notin {"DPH", "DPW"}
          /\ notna(df[i].z_start) /\ notna(df[i].z_end)
          /\ FLessEq(df[i].z_start, df[i].z_end)
          /\ i < Len(df) => FLessEq(df[i].z_end, df[i + 1].z_start)

\* the row-by-row part of the statement
EmitsRowByRow(c) ==
    /\ c.result = EmittedUpTo(c.df, Len(c.df))
    /\ \A i \in DOMAIN c.df :
          /\ Len(RowElement(c.df[i])) <= 1
          /\ EmptyUndefined(c.df[i]) => RowElement(c.df[i]) = <<>>

RowsHolding(df, z) ==
    {i \in DOMAIN df : /\ notna(df[i].z_start) /\ notna(df[i].z_end) /\ notna(z)
                       /\ FLessEq(df[i].z_start, z) /\ FLessEq(z, df[i].z_end)}

(***************************************************************************)
(* C29.  find_element_by_position(z) returns the element type of the first *)
(* row in table order whose z_start and z_end are both present with        *)
(* z_start <= z <= z_end, both bounds inclusive, and None exactly when     *)
(* there is no such row.                                                   *)
(***************************************************************************)
C29_FirstRowHoldingZ ==
    call.op = "find_element_by_position"
       => IF RowsHolding(call.df, call.z) = {}
          THEN call.result = "None"
          ELSE call.result = call.df[CHOOSE i \in RowsHolding(call.df, call.z) :
                                        \A j \in RowsHolding(call.df, call.z) : i <= j].Element

\* a position shared by two adjacent elements resolves to the earlier row
C29_Witness ==
    /\ call.op = "find_element_by_position"
    /\ Len(call.df) = 2
    /\ call.df[1].Element = "QPF" /\ call.df[2].Element = "BPM"
    /\ call.df[1].z_end = call.z /\ call.df[2].z_start = call.z
    /\ call.df[1].z_start # call.z /\ call.df[2].z_end # call.z
    /\ RowsHolding(call.df, call.z) = {1, 2}
    /\ call.result = "QPF"

(***************************************************************************)
(* BeamlineSimulatorUI (src/testUI.py): the data a window stores between   *)
(* simulation runs.  Lengths and positions are whole millimetres; the      *)
(* inputs keep every position at least a millimetre away from a rounding   *)
(* tie, where round(current_z, 2) of the floats and of the millimetre      *)
(* counts agree.  A list attribute that may hold None is a record          *)
(* [none, list].                                                           *)
(***************************************************************************)
SegmentList(list) == [none |-> FALSE, list |-> list]

NoneValue == [none |-> TRUE, list |-> <<>>]

\* an argument of an element line: text float() accepts, or text it rejects
Number(v) == [ok |-> TRUE, v |-> v]

NotANumber == [ok |-> FALSE, v |-> 0]

TextLine(elem, args) == [elem |-> elem, args |-> args]

\* the element prefixes that take two comma-separated arguments
TwoArgumentElements == {"QPF", "QPD", "Dipole", "DipoleWedge"}

\* one pass of the body of the for loop of parse_beamline_definition:
\* "skip" for a blank line or an unknown element, "error" for the except
\* branch, otherwise the segment appended
parse_line(line) ==
    IF line.elem = "" THEN [status |-> "skip"]
    ELSE IF line.elem = "D"
    THEN IF Len(line.args) = 1 /\ line.args[1].ok
         THEN [status |-> "segment", segment |-> [elem |-> "D", length |-> line.args[1].v]]
         ELSE [status |-> "error"]
    ELSE IF line.elem \in TwoArgumentElements
    THEN IF Len(line.args) >= 2 /\ line.args[1].ok /\ line.args[2].ok
         THEN [status |-> "segment", segment |-> [elem |-> line.elem, length |-> line.args[1].v]]
         ELSE [status |-> "error"]
    ELSE [status |-> "skip"]

RECURSIVE parse_beamline_loop(_, _, _)
parse_beamline_loop(lines, i, segments) ==
    IF i > Len(lines) THEN SegmentList(segments)
    ELSE IF parse_line(lines[i]).status = "error" THEN NoneValue
    ELSE IF parse_line(lines[i]).status = "skip" THEN parse_beamline_loop(lines, i + 1, segments)
    ELSE parse_beamline_loop(lines, i + 1, Append(segments, parse_line(lines[i]).segment))

parse_beamline_definition(text_def) == parse_beamline_loop(text_def, 1, <<>>)

\* the decimals of a metre kept in the positions of x_axis
DEFAULTINTERVALROUND == 2

\* millimetres in one unit of the last decimal kept
RoundUnit == 10 ^ (3 - DEFAULTINTERVALROUND)

\* round(current_z, DEFAULTINTERVALROUND) in millimetres

round(current_z) == ((current_z + (RoundUnit \div 2)) \div RoundUnit) * RoundUnit

\* the lengths one segment is tracked over: the while loop's full intervals,
\* then the remaining length when it is positive
RECURSIVE SegmentSteps(_, _)
SegmentSteps(intTrack, interval) ==
    IF intTrack >= interval THEN <<interval>> \o SegmentSteps(intTrack - interval, interval)
    ELSE IF intTrack > 0 THEN <<intTrack>>
    ELSE <<>>

RECURSIVE BeamlineSteps(_, _, _)
BeamlineSteps(beamSegments, i, interval) ==
    IF i > Len(beamSegments) THEN <<>>
    ELSE SegmentSteps(beamSegments[i].length, interval) \o BeamlineSteps(beamSegments, i + 1, interval)

Failed(u, message) == [ui |-> u, success |-> FALSE, message |-> message]

\* the simulation loop from its j-th tracked length on; fail names the call
\* of a collaborator that raises
RECURSIVE simulation_loop(_, _, _, _, _)
simulation_loop(u, steps, j, current_z, fail) ==
    IF j > Len(steps) THEN [ui |-> u, success |-> TRUE, message |-> "Simulation complete."]
    ELSE IF fail = [at |-> "useMatrice", step |-> j] THEN Failed(u, "An unexpected error occurred during simulation")
    ELSE IF fail = [at |-> "getXYZ", step |-> j]
    THEN Failed([u EXCEPT !.x_axis = Append(@, round(current_z + steps[j]))],
                "An unexpected error occurred during simulation")
    ELSE simulation_loop([u EXCEPT !.x_axis = Append(@, round(current_z + steps[j])),
                                   !.plot6dValues = @ \cup {round(current_z + steps[j])},
                                   !.twiss = @ + 1],
                         steps, j + 1, current_z + steps[j], fail)

\* _run_simulation_backend from the assignment of the data containers on
containers_and_loop(u, interval, fail) ==
    IF fail = [at |-> "getXYZ", step |-> 0]
    THEN Failed([u EXCEPT !.plot6dValues = {}, !.x_axis = <<0>>], "An unexpected error occurred during simulation")
    ELSE IF interval = 0
    THEN Failed([u EXCEPT !.plot6dValues = {0}, !.x_axis = <<0>>, !.twiss = 1, !.computed_from = u.beamSegments],
                "An unexpected error occurred during simulation")
    ELSE simulation_loop([u EXCEPT !.plot6dValues = {0}, !.x_axis = <<0>>, !.twiss = 1, !.computed_from = u.beamSegments],
                         BeamlineSteps(u.beamSegments.list, 1, interval), 1, 0, fail)

\* _run_simulation_backend: numeric_ok is whether int() and float() accept
\* the numeric fields, interval is the converted interval field
run_simulation_backend(u, numeric_ok, text_def, interval, fail) ==
    IF ~numeric_ok THEN Failed(u, "Input error")
    ELSE IF parse_beamline_definition(text_def).none
    THEN Failed([u EXCEPT !.beamSegments = NoneValue], "Beamline parsing error.")
    ELSE IF fail = [at |-> "gen_6d_gaussian", step |-> 0]
    THEN Failed([u EXCEPT !.beamSegments = parse_beamline_definition(text_def)],
                "An unexpected error occurred during simulation")
    ELSE containers_and_loop([u EXCEPT !.beamSegments = parse_beamline_definition(text_def)], interval, fail)

\* configure_slider
configure_slider(u) ==
    IF u.x_axis # <<>>
    THEN [u EXCEPT !.slider_max = Len(u.x_axis) - 1, !.current_z_index = 0]
    ELSE [u EXCEPT !.slider_max = 0]

\* run_simulation_and_update_ui, given what _run_simulation_backend returned
update_ui(r) ==
    IF r.success THEN configure_slider([r.ui EXCEPT !.message = r.message])
    ELSE [r.ui EXCEPT !.message = r.message]

\* the inputs a user can leave in the window
Intervals == {0, 8, 20}

TextLines ==
    {TextLine("?", <<>>), TextLine("D", <<Number(10)>>), TextLine("D", <<Number(30)>>),
     TextLine("D", <<NotANumber>>), TextLine("QPF", <<Number(10), Number(1)>>)}

BeamlineTexts ==
    {<<>>} \cup {<<l>> : l \in TextLines} \cup {<<l, m>> : l \in TextLines, m \in TextLines}

FailPoints ==
    {[at |-> "never", step |-> 0], [at |-> "gen_6d_gaussian", step |-> 0],
     [at |-> "getXYZ", step |-> 0], [at |-> "getXYZ", step |-> 2], [at |-> "useMatrice", step |-> 1]}

InitUI == InitKin /\ scipy_ok

UIFrame == UNCHANGED <<materials, sp_converted, scipy_ok, constructed, lastOp, threads, bodyLog, held>>

\* the Run button
run_simulation_and_update_ui(numeric_ok, text_def, interval, fail) ==
    /\ ui.runs < MaxRuns
    /\ ui' = [update_ui(run_simulation_backend(ui, numeric_ok, text_def, interval, fail)) EXCEPT !.runs = @ + 1]
    /\ call' = [op |-> "run_simulation_and_update_ui",
                success |-> run_simulation_backend(ui, numeric_ok, text_def, interval, fail).success]
    /\ UIFrame

\* the position slider
update_plots_from_slider(index) ==
    /\ ui.x_axis # <<>> /\ index < Len(ui.x_axis)
    /\ ui' = [ui EXCEPT !.current_z_index = index]
    /\ call' = [op |-> "update_plots_from_slider"]
    /\ UIFrame

NextUI ==
    \/ \E text_def \in BeamlineTexts, interval \in Intervals, fail \in FailPoints :
          run_simulation_and_update_ui(TRUE, text_def, interval, fail)
    \/ \E text_def \in BeamlineTexts : run_simulation_and_update_ui(FALSE, text_def, 0, [at |-> "never", step |-> 0])
    \/ \E index \in 0 .. ui.slider_max : update_plots_from_slider(index)

SpecUI == InitUI /\ [][NextUI]_vars

\* x_axis never steps back
NonDecreasing(x_axis) == \A i \in 1 .. Len(x_axis) - 1 : x_axis[i] <= x_axis[i + 1]

(***************************************************************************)
(* C30.  After any sequence of simulation runs, each succeeding or failing *)
(* (parse error, non-numeric input, exception inside the loop), the stored *)
(* results agree with one another: x_axis is as long as every aggregated   *)
(* Twiss series, every value of x_axis is a key of plot6dValues, x_axis is *)
(* non-decreasing, and beamSegments is the segment list the stored results *)
(* were computed from.                                                     *)
(***************************************************************************)
C30_StoredResultsConsistent ==
    /\ Len(ui.x_axis) = ui.twiss
    /\ \A i \in DOMAIN ui.x_axis : ui.x_axis[i] \in ui.plot6dValues
    /\ NonDecreasing(ui.x_axis)
    /\ ui.beamSegments = ui.computed_from

====
